---- MODULE Spec2Model ----
(***************************************************************************)
(* A model of the consolidation pipeline of the ml-service: the similarity *)
(* toolkit, the deduplication engine, the co-occurrence relationship       *)
(* builder, the relationship classifier and the extract_graph route.       *)
(*                                                                         *)
(* Conventions.  A Python str is a sequence of one-character strings, so   *)
(* that normalisation, substring tests and slicing are computed.  A Python *)
(* Optional value is a sequence of length at most one (None == <<>>).  A   *)
(* Python dict is a sequence of entries in insertion order.  List indices  *)
(* are 1-based here and 0-based in the source; chunk indices, which are    *)
(* data, keep their source values.  A confidence or a weight is an exact   *)
(* fraction: confidences are counted in hundredths.                        *)
(***************************************************************************)
EXTENDS Integers, Sequences, FiniteSets, TLC

VARIABLES
    entities,        \* deduplicate_entities: the entity list argument
    embeddings,      \* deduplicate_entities: the embedding list argument
    dpc,             \* deduplicate_entities: position in the function
    type_groups,     \* dict type -> list of indices, in insertion order
    merge_map,       \* dict merged index -> canonical index, in insertion order
    dg, di, dj,      \* the scan's loop positions: group, i, j
    db,              \* the build loop's position
    deduplicated,    \* the list being returned
    groups,          \* merged_indices of each returned canonical
    text_chunks,     \* build_cooccurrence_relationships: the chunk list argument
    rel_entities,    \* build_cooccurrence_relationships: the entity list argument
    min_weight,      \* build_cooccurrence_relationships: the threshold argument
    rpc,             \* build_cooccurrence_relationships: position in the function
    occurrences,     \* dict name -> set of chunk indices, in insertion order
    ri, rj,          \* the pair loop's positions
    relationships,   \* the list being returned
    w_chunks1,       \* calculate_cooccurrence_weight: first argument
    w_chunks2,       \* calculate_cooccurrence_weight: second argument
    w_result,        \* calculate_cooccurrence_weight: the value returned, if any
    cl_relationships,       \* classify_relationships_with_llm: the list argument, as passed
    cl_client,              \* classify_relationships_with_llm: what gemini_client is
    cl_entities,            \* classify_relationships_with_llm: the entities argument
    delay_ms,               \* classify_relationships_with_llm: the delay argument
    cpc,                    \* classify_relationships_with_llm: position in the function
    cidx,                   \* the loop's position
    enhanced_relationships, \* the list being returned
    calls,                  \* the calls made to the collaborator's classify_relationship
    sleeps,                 \* the loop positions after which time.sleep was called
    tagged,          \* extract_entities_spacy: the chunks, each with what the tagger finds
    xpc,             \* extract_entities_spacy: position in the function
    xc,              \* the chunk being read
    xm,              \* the mention being read
    entities_map,    \* the entities found so far, by name
    p_chunks,                \* extract_graph: request.textChunks
    ppc,                     \* extract_graph: the stage the handler is in
    remaining_relationships, \* extract_graph: the relationships past the first TOP_K
    response,                \* extract_graph: what the handler answered, if it has
    use_gemini,           \* extract_entities_with_gemini: the use_gemini argument
    h_model,              \* whether GeminiClient() has a model
    replies,              \* what the model call gives for each chunk
    hpc,                  \* extract_entities_with_gemini: position in the function
    hc,                   \* the chunk being sent
    he,                   \* the candidate of the reply being read
    spacy_entities,       \* the tagger list, as returned at line 108
    gemini_entities_map,  \* the model candidates so far, by name
    merged_entities,      \* the merged entities, by name
    hm,                   \* the merge loop's position
    h_returned,           \* the list returned, if the function has returned
    outcomes,    \* _call_with_retry: what func does on each successive call
    attempt,     \* _call_with_retry: the loop variable
    tpc,         \* _call_with_retry: position in the function
    t_calls,     \* the number of calls made to func
    t_sleeps,    \* the waits passed to time.sleep, in seconds, in order
    texts,       \* generate_embeddings: the texts argument
    e_model,     \* whether self.client has a model
    scripts,     \* what successive embed_content calls give, for each batch
    epc,         \* generate_embeddings: position in the function
    ei,          \* the batch loop's variable i
    results,     \* the list being returned
    e_calls,     \* the batch starts embed_content was called with, in order
    ab_short,    \* is_abbreviation: the short argument
    ab_long,     \* is_abbreviation: the long argument
    ab_max,      \* is_abbreviation: the max_length argument
    ab_result,   \* what is_abbreviation returned, if it has
    pt_examples,     \* _classify_with_patterns: the examples argument
    pt_source_type,  \* _classify_with_patterns: the source_type argument
    pt_target_type,  \* _classify_with_patterns: the target_type argument
    pt_result        \* what _classify_with_patterns returned, if it has

dedupVars == <<entities, embeddings, dpc, type_groups, merge_map, dg, di, dj,
               db, deduplicated, groups>>

coocVars == <<text_chunks, rel_entities, min_weight, rpc, occurrences, ri, rj,
              relationships>>

weightVars == <<w_chunks1, w_chunks2, w_result>>

classifyVars == <<cl_relationships, cl_client, cl_entities, delay_ms, cpc, cidx,
                  enhanced_relationships, calls, sleeps>>

extractVars == <<tagged, xpc, xc, xm, entities_map>>

pipeVars == <<p_chunks, ppc, remaining_relationships, response>>

hybridVars == <<use_gemini, h_model, replies, hpc, hc, he, spacy_entities,
                gemini_entities_map, merged_entities, hm, h_returned>>

retryVars == <<outcomes, attempt, tpc, t_calls, t_sleeps>>

embedVars == <<texts, e_model, scripts, epc, ei, results, e_calls>>

abbrevVars == <<ab_short, ab_long, ab_max, ab_result>>

patternVars == <<pt_examples, pt_source_type, pt_target_type, pt_result>>

notDedupVars == <<coocVars, weightVars, classifyVars, extractVars, pipeVars,
    hybridVars, retryVars, embedVars, abbrevVars, patternVars>>
notCoocVars == <<dedupVars, weightVars, classifyVars, extractVars, pipeVars,
    hybridVars, retryVars, embedVars, abbrevVars, patternVars>>
notWeightVars == <<dedupVars, coocVars, classifyVars, extractVars, pipeVars,
    hybridVars, retryVars, embedVars, abbrevVars, patternVars>>
notClassifyVars == <<dedupVars, coocVars, weightVars, extractVars, pipeVars,
    hybridVars, retryVars, embedVars, abbrevVars, patternVars>>
notExtractVars == <<dedupVars, coocVars, weightVars, classifyVars, pipeVars,
    hybridVars, retryVars, embedVars, abbrevVars, patternVars>>
notHybridVars == <<dedupVars, coocVars, weightVars, classifyVars, extractVars, pipeVars,
    retryVars, embedVars, abbrevVars, patternVars>>
notRetryVars == <<dedupVars, coocVars, weightVars, classifyVars, extractVars, pipeVars,
    hybridVars, embedVars, abbrevVars, patternVars>>
notEmbedVars == <<dedupVars, coocVars, weightVars, classifyVars, extractVars, pipeVars,
    hybridVars, retryVars, abbrevVars, patternVars>>
notAbbrevVars == <<dedupVars, coocVars, weightVars, classifyVars, extractVars, pipeVars,
    hybridVars, retryVars, embedVars, patternVars>>
notPatternVars == <<dedupVars, coocVars, weightVars, classifyVars, extractVars, pipeVars,
    hybridVars, retryVars, embedVars, abbrevVars>>

vars == <<dedupVars, coocVars, weightVars, classifyVars, extractVars, pipeVars,
         hybridVars, retryVars, embedVars, abbrevVars, patternVars>>

-----------------------------------------------------------------------------
(* Generic helpers                                                         *)

None == <<>>
Some(v) == <<v>>

Min(a, b) == IF a <= b THEN a ELSE b
Max(a, b) == IF a >= b THEN a ELSE b

Range(s) == {s[k] : k \in 1..Len(s)}

RECURSIVE SumSeq(_)
SumSeq(s) == IF s = <<>> THEN 0 ELSE Head(s) + SumSeq(Tail(s))

\* Python's `x in s` for str operands: x occurs as a contiguous slice of s.
IsSubstring(x, s) ==
    \E k \in 0..(Len(s) - Len(x)) : \A j \in 1..Len(x) : s[k + j] = x[j]

\* All sequences over S of length at most n.
SeqsUpTo(S, n) == UNION {[1..k -> S] : k \in 0..n}

-----------------------------------------------------------------------------
(* Characters                                                              *)

UpperChars == <<"A","B","C","D","E","F","G","H","I","J","K","L","M",
                "N","O","P","Q","R","S","T","U","V","W","X","Y","Z">>
LowerChars == <<"a","b","c","d","e","f","g","h","i","j","k","l","m",
                "n","o","p","q","r","s","t","u","v","w","x","y","z">>
DigitChars == {"0","1","2","3","4","5","6","7","8","9"}
SpaceChars == {" ", "\t", "\n"}

\* str.lower() on one character.
LowerOfUpper ==
    [c \in Range(UpperChars) |->
        LowerChars[CHOOSE k \in 1..Len(UpperChars) : UpperChars[k] = c]]

LowerChar(c) == IF c \in DOMAIN LowerOfUpper THEN LowerOfUpper[c] ELSE c

Lower(s) == [k \in 1..Len(s) |-> LowerChar(s[k])]

\* The regular expression class \w.
IsWordChar(c) ==
    \/ c \in Range(UpperChars)
    \/ c \in Range(LowerChars)
    \/ c \in DigitChars
    \/ c = "_"

IsSpaceChar(c) == c \in SpaceChars

\* str.strip(): drop leading and trailing whitespace.
Strip(s) ==
    LET keep == {k \in 1..Len(s) : ~IsSpaceChar(s[k])}
    IN  IF keep = {} THEN <<>>
        ELSE LET lo == CHOOSE k \in keep : \A m \in keep : k <= m
                 hi == CHOOSE k \in keep : \A m \in keep : k >= m
             IN  SubSeq(s, lo, hi)

\* str.split(): the maximal runs of non-whitespace characters, in order.
RECURSIVE Split(_)
Split(s) ==
    LET t == Strip(s)
    IN  IF t = <<>> THEN <<>>
        ELSE LET sp == {k \in 1..Len(t) : IsSpaceChar(t[k])}
             IN  IF sp = {} THEN <<t>>
                 ELSE LET f == CHOOSE k \in sp : \A m \in sp : k <= m
                      IN  <<SubSeq(t, 1, f - 1)>> \o Split(SubSeq(t, f + 1, Len(t)))

-----------------------------------------------------------------------------
(* Similarity toolkit (shared/utils/similarity.py)                         *)

\* re.sub(r'[^\w\s]', '', s): drop what is neither a word character nor
\* whitespace.
RECURSIVE RemovePunctuation(_)
RemovePunctuation(s) ==
    IF s = <<>> THEN <<>>
    ELSE IF IsWordChar(Head(s)) \/ IsSpaceChar(Head(s))
         THEN <<Head(s)>> \o RemovePunctuation(Tail(s))
    ELSE RemovePunctuation(Tail(s))

normalize_text(text) == Strip(RemovePunctuation(Lower(text)))

\* difflib's find_longest_match on whole strings without junk: the longest
\* common block, the earliest in a among the longest, then the earliest in b.
FindLongestMatch(a, b) ==
    LET blocks == {t \in (1..Len(a)) \X (1..Len(b)) \X (1..Min(Len(a), Len(b))) :
                     /\ t[1] + t[3] - 1 <= Len(a)
                     /\ t[2] + t[3] - 1 <= Len(b)
                     /\ SubSeq(a, t[1], t[1] + t[3] - 1) = SubSeq(b, t[2], t[2] + t[3] - 1)}
        Better(t, u) ==
            \/ t[3] > u[3]
            \/ t[3] = u[3] /\ t[1] < u[1]
            \/ t[3] = u[3] /\ t[1] = u[1] /\ t[2] <= u[2]
    IN  IF blocks = {} THEN <<1, 1, 0>>
        ELSE CHOOSE t \in blocks : \A u \in blocks : Better(t, u)

\* difflib's get_matching_blocks, summed: the block, then both sides of it.
RECURSIVE MatchingSize(_, _)
MatchingSize(a, b) ==
    IF a = <<>> \/ b = <<>> THEN 0
    ELSE LET m == FindLongestMatch(a, b)
         IN  IF m[3] = 0 THEN 0
             ELSE m[3]
                  + MatchingSize(SubSeq(a, 1, m[1] - 1), SubSeq(b, 1, m[2] - 1))
                  + MatchingSize(SubSeq(a, m[1] + m[3], Len(a)),
                                 SubSeq(b, m[2] + m[3], Len(b)))

\* SequenceMatcher(None, norm1, norm2).ratio() as the fraction
\* 2 * matches / (len(a) + len(b)), and 1.0 for two empty strings.
string_similarity(text1, text2) ==
    LET norm1 == normalize_text(text1)
        norm2 == normalize_text(text2)
        total == Len(norm1) + Len(norm2)
    IN  IF total = 0 THEN [num |-> 1, den |-> 1]
        ELSE [num |-> 2 * MatchingSize(norm1, norm2), den |-> total]

Dot(v1, v2) == SumSeq([k \in 1..Len(v1) |-> v1[k] * v2[k]])

\* cosine_similarity: a ValueError for unequal or zero lengths, 0.0 for a
\* vector of magnitude zero, else dot / (sqrt(sq1) * sqrt(sq2)).
cosine_similarity(vec1, vec2) ==
    IF Len(vec1) # Len(vec2) THEN [raised |-> TRUE, dot |-> 0, sq1 |-> 1, sq2 |-> 1]
    ELSE IF Len(vec1) = 0 THEN [raised |-> TRUE, dot |-> 0, sq1 |-> 1, sq2 |-> 1]
    ELSE IF Dot(vec1, vec1) = 0 \/ Dot(vec2, vec2) = 0
         THEN [raised |-> FALSE, dot |-> 0, sq1 |-> 1, sq2 |-> 1]
    ELSE [raised |-> FALSE, dot |-> Dot(vec1, vec2),
          sq1 |-> Dot(vec1, vec1), sq2 |-> Dot(vec2, vec2)]

Initials(words) == [k \in 1..Len(words) |-> words[k][1]]

\* an abbreviation test without the length gate
AbbreviationOfAnyLength(short, long, max_length) ==
    LET norm_short == normalize_text(short)
        norm_long == normalize_text(long)
        words == Split(norm_long)
    IN  IF IsSubstring(norm_short, norm_long) THEN TRUE
        ELSE Len(words) > 0 /\ norm_short = Initials(words)

is_abbreviation(short, long, max_length) ==
    LET norm_short == normalize_text(short)
        norm_long == normalize_text(long)
        words == Split(norm_long)
    IN  IF Len(norm_short) > max_length THEN FALSE
        ELSE IF IsSubstring(norm_short, norm_long) THEN TRUE
        ELSE Len(words) > 0 /\ norm_short = Initials(words)

-----------------------------------------------------------------------------
(* Deduplication engine (features/organize/services/deduplication_engine.py) *)

STRING_SIMILARITY_THRESHOLD == 85
COSINE_SIMILARITY_THRESHOLD == 90
DEFAULT_MAX_LENGTH == 5

\* fraction >= pct / 100
RatioAtLeast(r, pct) == 100 * r.num >= pct * r.den

\* dot / (sqrt(sq1) * sqrt(sq2)) >= pct / 100, for pct > 0
CosineAtLeast(c, pct) ==
    /\ c.dot > 0
    /\ 10000 * c.dot * c.dot >= pct * pct * c.sq1 * c.sq2

\* should_merge without its first rule
ShouldMergeUngated(entity1, entity2, emb1, emb2) ==
    LET str_sim == string_similarity(entity1.name, entity2.name)
        cos_sim == cosine_similarity(emb1[1], emb2[1])
    IN  \/ RatioAtLeast(str_sim, STRING_SIMILARITY_THRESHOLD)
        \/ /\ emb1 # None /\ emb2 # None
           /\ ~cos_sim.raised
           /\ CosineAtLeast(cos_sim, COSINE_SIMILARITY_THRESHOLD)
        \/ is_abbreviation(entity1.name, entity2.name, DEFAULT_MAX_LENGTH)
        \/ is_abbreviation(entity2.name, entity1.name, DEFAULT_MAX_LENGTH)

should_merge(entity1, entity2, emb1, emb2) ==
    LET str_sim == string_similarity(entity1.name, entity2.name)
        cos_sim == cosine_similarity(emb1[1], emb2[1])
    IN  IF entity1.type # entity2.type THEN FALSE
        ELSE IF RatioAtLeast(str_sim, STRING_SIMILARITY_THRESHOLD) THEN TRUE
        ELSE IF /\ emb1 # None /\ emb2 # None
                /\ ~cos_sim.raised
                /\ CosineAtLeast(cos_sim, COSINE_SIMILARITY_THRESHOLD) THEN TRUE
        ELSE \/ is_abbreviation(entity1.name, entity2.name, DEFAULT_MAX_LENGTH)
             \/ is_abbreviation(entity2.name, entity1.name, DEFAULT_MAX_LENGTH)

\* dict helpers: a dict is a sequence of <<key, value>> in insertion order
DictKeys(d) == {d[k][1] : k \in 1..Len(d)}
DictGet(d, key) == d[CHOOSE k \in 1..Len(d) : d[k][1] = key][2]
DictPut(d, key, value) ==
    IF key \in DictKeys(d)
    THEN [k \in 1..Len(d) |-> IF d[k][1] = key THEN <<key, value>> ELSE d[k]]
    ELSE Append(d, <<key, value>>)

\* lines 100-104: indices grouped by type, groups in order of first occurrence
RECURSIVE GroupByType(_, _, _)
GroupByType(ents, k, acc) ==
    IF k > Len(ents) THEN acc
    ELSE LET t == ents[k].type
             prev == IF t \in DictKeys(acc) THEN DictGet(acc, t) ELSE <<>>
         IN  GroupByType(ents, k + 1, DictPut(acc, t, Append(prev, k)))

\* lines 150-153: [i] followed by the keys mapped to i, in insertion order
RECURSIVE KeysMappedTo(_, _)
KeysMappedTo(d, i) ==
    IF d = <<>> THEN <<>>
    ELSE IF Head(d)[2] = i THEN <<Head(d)[1]>> \o KeysMappedTo(Tail(d), i)
    ELSE KeysMappedTo(Tail(d), i)

MergedIndices(d, i) == <<i>> \o KeysMappedTo(d, i)

\* lines 174-178: append the sources whose snippet is not yet present
RECURSIVE MergeSources(_, _)
MergeSources(sources, more) ==
    IF more = <<>> THEN sources
    ELSE IF \E k \in 1..Len(sources) : sources[k].snippet = Head(more).snippet
         THEN MergeSources(sources, Tail(more))
    ELSE MergeSources(Append(sources, Head(more)), Tail(more))

\* lines 184-186: append the aliases not yet present and not the canonical name
RECURSIVE MergeAliases(_, _, _)
MergeAliases(aliases, more, name) ==
    IF more = <<>> THEN aliases
    ELSE IF Head(more) \notin Range(aliases) /\ Head(more) # name
         THEN MergeAliases(Append(aliases, Head(more)), Tail(more), name)
    ELSE MergeAliases(aliases, Tail(more), name)

\* a mean that forgets the canonical's own confidence
AverageOfMergedOnly(confidences) ==
    IF Len(confidences) = 1 THEN [num |-> confidences[1], den |-> 1]
    ELSE [num |-> SumSeq(Tail(confidences)), den |-> Len(confidences) - 1]

\* line 189: sum(confidences) / len(confidences), in hundredths
AverageConfidence(confidences) ==
    [num |-> SumSeq(confidences), den |-> Len(confidences)]

\* lines 166-186: one merged entity folded into the canonical
MergeVariant(canonical, merged_entity) ==
    LET aliases1 ==
            IF merged_entity.name # canonical.name
               /\ merged_entity.name \notin Range(canonical.aliases)
            THEN Append(canonical.aliases, merged_entity.name)
            ELSE canonical.aliases
    IN  [canonical EXCEPT
            !.aliases = MergeAliases(aliases1, merged_entity.aliases, canonical.name),
            !.sources = MergeSources(canonical.sources, merged_entity.sources)]

RECURSIVE MergeVariants(_, _, _)
MergeVariants(canonical, ents, idxs) ==
    IF idxs = <<>> THEN canonical
    ELSE MergeVariants(MergeVariant(canonical, ents[Head(idxs)]), ents, Tail(idxs))

\* lines 155-189: the canonical built for index i
BuildCanonical(ents, mmap, i) ==
    LET merged_indices == MergedIndices(mmap, i)
        folded == MergeVariants(ents[i], ents, Tail(merged_indices))
        confidences == [k \in 1..Len(merged_indices) |-> ents[merged_indices[k]].confidence]
    IN  [name |-> folded.name, type |-> folded.type,
         confidence |-> AverageConfidence(confidences),
         sources |-> folded.sources, aliases |-> folded.aliases]

-----------------------------------------------------------------------------
(* Inputs of the deduplication runs                                        *)

MaxEntities == 3

Name_AI == <<"A","I">>
Name_AI_dotted == <<"A",".","I",".">>
Name_ArtIntel == <<"A","r","t"," ","I","n","t","e","l">>
Name_ML == <<"M","L">>
Name_Mail == <<"M","a","i","l">>

Text_AI == <<"A","I"," ","i","s"," ","b","i","g">>
Text_AI_dotted == <<"A",".","I","."," ","n","o","w">>
Text_ML == <<"M","L"," ","t","o","o">>

Source(snippet, chunkIndex) ==
    [docId |-> "doc", snippet |-> snippet, chunkIndex |-> chunkIndex]

Entity(name, type, confidence, sources, aliases) ==
    [name |-> name, type |-> type, confidence |-> confidence,
     sources |-> sources, aliases |-> aliases]

\* An entity with the embedding the caller holds for it.  The pool has
\* entities that differ in type only, names that match by normalisation, by
\* initials and by substring, vectors close to one neighbour and far from the
\* next, vectors of another or of no dimension, and entities that arrive
\* with aliases and with repeated sources.
DedupPool ==
    { [entity |-> Entity(Name_AI, "CONCEPT", 80, <<Source(Text_AI, 0)>>, <<>>),
       embedding |-> Some(<<1, 0>>)],
      [entity |-> Entity(Name_AI_dotted, "CONCEPT", 90, <<Source(Text_AI_dotted, 1)>>, <<>>),
       embedding |-> None],
      [entity |-> Entity(Name_AI, "PERSON", 70, <<Source(Text_AI, 0)>>, <<>>),
       embedding |-> Some(<<1, 0>>)],
      [entity |-> Entity(Name_ArtIntel, "CONCEPT", 60,
                         <<Source(Text_AI, 0), Source(Text_AI_dotted, 1)>>,
                         <<Name_AI_dotted>>),
       embedding |-> Some(<<5, 5>>)],
      [entity |-> Entity(Name_ML, "CONCEPT", 90, <<Source(Text_ML, 2)>>, <<Name_AI>>),
       embedding |-> Some(<<5, 2>>)],
      [entity |-> Entity(Name_ML, "PERSON", 50, <<Source(Text_ML, 2)>>, <<>>),
       embedding |-> Some(<<>>)],
      [entity |-> Entity(Name_AI, "CONCEPT", 80,
                         <<Source(Text_AI, 0), Source(Text_AI, 0)>>,
                         <<Name_AI, Name_ML, Name_ML>>),
       embedding |-> None],
      [entity |-> Entity(Name_Mail, "CONCEPT", 70, <<Source(Text_AI_dotted, 1)>>, <<>>),
       embedding |-> Some(<<1, 0, 0>>)] }

\* The embedding lists tried with a list of items: the parallel list, the
\* parallel list without its last entry, and with one entry too many.
EmbeddingLists(items) ==
    LET parallel == [k \in 1..Len(items) |-> items[k].embedding]
    IN  {parallel, Append(parallel, None)}
        \cup (IF items = <<>> THEN {} ELSE {SubSeq(parallel, 1, Len(items) - 1)})

-----------------------------------------------------------------------------
(* deduplicate_entities, one step per loop iteration                       *)

DedupReset ==
    /\ type_groups = <<>>
    /\ merge_map = <<>>
    /\ dg = 1 /\ di = 1 /\ dj = 2 /\ db = 1
    /\ deduplicated = <<>>
    /\ groups = <<>>

InitDedup ==
    /\ \E items \in SeqsUpTo(DedupPool, MaxEntities) :
          /\ entities = [k \in 1..Len(items) |-> items[k].entity]
          /\ embeddings \in EmbeddingLists(items)
    /\ dpc = "start"
    /\ DedupReset

Indices == type_groups[dg][2]
Merged == DictKeys(merge_map)

DedupReturnsUnmerged ==
    /\ dpc = "start"
    /\ Len(entities) # Len(embeddings)
    /\ dpc' = "done"
    /\ deduplicated' = entities
    /\ UNCHANGED notDedupVars
    /\ UNCHANGED <<entities, embeddings, type_groups, merge_map, dg, di, dj, db, groups>>

\* lines 93-94
DedupLengthMismatch ==
    /\ dpc = "start"
    /\ Len(entities) # Len(embeddings)
    /\ dpc' = "raised"
    /\ UNCHANGED notDedupVars
    /\ UNCHANGED <<entities, embeddings, type_groups, merge_map, dg, di, dj, db,
                   deduplicated, groups>>

\* lines 96-97
DedupEmpty ==
    /\ dpc = "start"
    /\ Len(entities) = Len(embeddings)
    /\ Len(entities) = 0
    /\ dpc' = "done"
    /\ deduplicated' = <<>>
    /\ UNCHANGED notDedupVars
    /\ UNCHANGED <<entities, embeddings, type_groups, merge_map, dg, di, dj, db, groups>>

\* lines 99-107
DedupGroup ==
    /\ dpc = "start"
    /\ Len(entities) = Len(embeddings)
    /\ Len(entities) # 0
    /\ type_groups' = GroupByType(entities, 1, <<>>)
    /\ merge_map' = <<>>
    /\ dg' = 1 /\ di' = 1 /\ dj' = 2
    /\ dpc' = "scan"
    /\ UNCHANGED notDedupVars
    /\ UNCHANGED <<entities, embeddings, db, deduplicated, groups>>

\* lines 116-117: the outer index was merged away earlier
ScanSkipMerged ==
    /\ dpc = "scan"
    /\ di <= Len(Indices)
    /\ Indices[di] \in Merged
    /\ di' = di + 1 /\ dj' = di + 2
    /\ UNCHANGED notDedupVars
    /\ UNCHANGED <<entities, embeddings, dpc, type_groups, merge_map, dg, db,
                   deduplicated, groups>>

\* lines 123-124: the inner index was merged away earlier
ScanSkipPair ==
    /\ dpc = "scan"
    /\ di <= Len(Indices) /\ dj <= Len(Indices)
    /\ Indices[di] \notin Merged
    /\ Indices[dj] \in Merged
    /\ dj' = dj + 1
    /\ UNCHANGED notDedupVars
    /\ UNCHANGED <<entities, embeddings, dpc, type_groups, merge_map, dg, di, db,
                   deduplicated, groups>>

\* a scan that merges the earlier index into the later one
ScanMergeIntoLater ==
    /\ dpc = "scan"
    /\ di <= Len(Indices) /\ dj <= Len(Indices)
    /\ Indices[di] \notin Merged
    /\ Indices[dj] \notin Merged
    /\ should_merge(entities[Indices[di]], entities[Indices[dj]],
                    embeddings[Indices[di]], embeddings[Indices[dj]])
    /\ merge_map' = DictPut(merge_map, Indices[di], Indices[dj])
    /\ dj' = dj + 1
    /\ UNCHANGED notDedupVars
    /\ UNCHANGED <<entities, embeddings, dpc, type_groups, dg, di, db,
                   deduplicated, groups>>

\* lines 127-134: the pair merges, the later into the earlier
ScanMerge ==
    /\ dpc = "scan"
    /\ di <= Len(Indices) /\ dj <= Len(Indices)
    /\ Indices[di] \notin Merged
    /\ Indices[dj] \notin Merged
    /\ should_merge(entities[Indices[di]], entities[Indices[dj]],
                    embeddings[Indices[di]], embeddings[Indices[dj]])
    /\ merge_map' = DictPut(merge_map, Indices[dj], Indices[di])
    /\ dj' = dj + 1
    /\ UNCHANGED notDedupVars
    /\ UNCHANGED <<entities, embeddings, dpc, type_groups, dg, di, db,
                   deduplicated, groups>>

\* a scan that leaves the inner loop at the first pair that does not merge
ScanKeepEndsRow ==
    /\ dpc = "scan"
    /\ di <= Len(Indices) /\ dj <= Len(Indices)
    /\ Indices[di] \notin Merged
    /\ Indices[dj] \notin Merged
    /\ ~should_merge(entities[Indices[di]], entities[Indices[dj]],
                     embeddings[Indices[di]], embeddings[Indices[dj]])
    /\ dj' = Len(Indices) + 1
    /\ UNCHANGED notDedupVars
    /\ UNCHANGED <<entities, embeddings, dpc, type_groups, merge_map, dg, di, db,
                   deduplicated, groups>>

\* lines 127-132: the pair does not merge
ScanKeep ==
    /\ dpc = "scan"
    /\ di <= Len(Indices) /\ dj <= Len(Indices)
    /\ Indices[di] \notin Merged
    /\ Indices[dj] \notin Merged
    /\ ~should_merge(entities[Indices[di]], entities[Indices[dj]],
                     embeddings[Indices[di]], embeddings[Indices[dj]])
    /\ dj' = dj + 1
    /\ UNCHANGED notDedupVars
    /\ UNCHANGED <<entities, embeddings, dpc, type_groups, merge_map, dg, di, db,
                   deduplicated, groups>>

\* line 119 exhausted: the next outer index
ScanNextIndex ==
    /\ dpc = "scan"
    /\ di <= Len(Indices) /\ dj > Len(Indices)
    /\ Indices[di] \notin Merged
    /\ di' = di + 1 /\ dj' = di + 2
    /\ UNCHANGED notDedupVars
    /\ UNCHANGED <<entities, embeddings, dpc, type_groups, merge_map, dg, db,
                   deduplicated, groups>>

\* line 112 exhausted: the next type group
ScanNextGroup ==
    /\ dpc = "scan"
    /\ di > Len(Indices)
    /\ dg < Len(type_groups)
    /\ dg' = dg + 1 /\ di' = 1 /\ dj' = 2
    /\ UNCHANGED notDedupVars
    /\ UNCHANGED <<entities, embeddings, dpc, type_groups, merge_map, db,
                   deduplicated, groups>>

\* line 110 exhausted: lines 136-138
ScanDone ==
    /\ dpc = "scan"
    /\ di > Len(Indices)
    /\ dg = Len(type_groups)
    /\ dpc' = "build"
    /\ db' = 1
    /\ deduplicated' = <<>>
    /\ groups' = <<>>
    /\ UNCHANGED notDedupVars
    /\ UNCHANGED <<entities, embeddings, type_groups, merge_map, dg, di, dj>>

\* lines 142-143
BuildSkipMerged ==
    /\ dpc = "build"
    /\ db <= Len(entities)
    /\ db \in Merged
    /\ db' = db + 1
    /\ UNCHANGED notDedupVars
    /\ UNCHANGED <<entities, embeddings, dpc, type_groups, merge_map, dg, di, dj,
                   deduplicated, groups>>

\* lines 149-192.  The test of line 146 never succeeds: an index enters
\* `processed` in the one iteration that visits it.
BuildEntity ==
    /\ dpc = "build"
    /\ db <= Len(entities)
    /\ db \notin Merged
    /\ deduplicated' = Append(deduplicated, BuildCanonical(entities, merge_map, db))
    /\ groups' = Append(groups, MergedIndices(merge_map, db))
    /\ db' = db + 1
    /\ UNCHANGED notDedupVars
    /\ UNCHANGED <<entities, embeddings, dpc, type_groups, merge_map, dg, di, dj>>

\* line 196
DedupReturn ==
    /\ dpc = "build"
    /\ db > Len(entities)
    /\ dpc' = "done"
    /\ UNCHANGED notDedupVars
    /\ UNCHANGED <<entities, embeddings, type_groups, merge_map, dg, di, dj, db,
                   deduplicated, groups>>

DedupStep ==
    \/ DedupEmpty
    \/ DedupGroup
    \/ ScanSkipMerged
    \/ ScanSkipPair
    \/ ScanMerge
    \/ ScanKeep
    \/ ScanNextIndex
    \/ ScanNextGroup
    \/ ScanDone
    \/ BuildSkipMerged
    \/ BuildEntity
    \/ DedupReturn

DedupIdle ==
    /\ entities = <<>>
    /\ embeddings = <<>>
    /\ dpc = "idle"
    /\ DedupReset

-----------------------------------------------------------------------------
(* Properties of the deduplication engine                                  *)

RECURSIVE SumOver(_, _)
SumOver(S, ents) ==
    IF S = {} THEN 0
    ELSE LET k == CHOOSE x \in S : TRUE
         IN  ents[k].confidence + SumOver(S \ {k}, ents)

\* The index an input index ends up under: itself unless merged away.
CanonicalOf(k) == IF k \in Merged THEN DictGet(merge_map, k) ELSE k

GroupOf(c) == {k \in 1..Len(entities) : CanonicalOf(k) = c}

NoRepeats(s) == \A a, b \in 1..Len(s) : a # b => s[a] # s[b]

\* C1: should_merge is false for any two entities of different types,
\* whatever their names and whichever embeddings accompany them, and every
\* index merged away, during the scan and in the returned groups, has the
\* type of the canonical it was merged into.
C1_TypeGate ==
    /\ \A a, b \in 1..Len(entities) :
          \A e1, e2 \in Range(embeddings) \cup {None} :
             entities[a].type # entities[b].type
                => ~should_merge(entities[a], entities[b], e1, e2)
    /\ \A k \in 1..Len(merge_map) :
          entities[merge_map[k][1]].type = entities[merge_map[k][2]].type
    /\ \A o \in 1..Len(deduplicated) :
          \A m \in Range(groups[o]) : entities[m].type = deduplicated[o].type

\* A finished run over two entities of different types that have the same
\* name, the same embedding (cosine 1) and would merge on every signal, next
\* to a pair that did merge.
C1_Witness ==
    /\ dpc = "done"
    /\ merge_map # <<>>
    /\ \E a, b \in 1..Len(entities) :
          /\ a < b
          /\ entities[a].type # entities[b].type
          /\ entities[a].name = entities[b].name
          /\ embeddings[a] # None /\ embeddings[a] = embeddings[b]
          /\ is_abbreviation(entities[a].name, entities[b].name, DEFAULT_MAX_LENGTH)
          /\ ShouldMergeUngated(entities[a], entities[b], embeddings[a], embeddings[b])
          /\ CanonicalOf(a) # CanonicalOf(b)

\* C2: when deduplicate_entities returns, every input index lies in exactly
\* one returned group, the groups are the canonicals with what was merged
\* into them, and each returned confidence is the sum of its group's input
\* confidences, each index counted once, divided by the group's size.
C2_GroupsAndMean ==
    dpc = "done" =>
        /\ Len(groups) = Len(deduplicated)
        /\ \A k \in 1..Len(entities) :
              Cardinality({o \in 1..Len(groups) : k \in Range(groups[o])}) = 1
        /\ \A o \in 1..Len(groups) :
              /\ NoRepeats(groups[o])
              /\ groups[o][1] \notin Merged
              /\ Range(groups[o]) = GroupOf(groups[o][1])
              /\ deduplicated[o].confidence.den > 0
              /\ deduplicated[o].confidence.num * Cardinality(GroupOf(groups[o][1]))
                    = deduplicated[o].confidence.den * SumOver(GroupOf(groups[o][1]), entities)

\* A finished run that returns a group of three entities of three different
\* confidences next to nothing else, its confidence a third of their sum.
C2_Witness ==
    /\ dpc = "done"
    /\ \E o \in 1..Len(groups) :
          /\ Len(groups[o]) = 3
          /\ Cardinality({entities[m].confidence : m \in Range(groups[o])}) = 3
          /\ 3 * deduplicated[o].confidence.num
                = deduplicated[o].confidence.den * SumOver(Range(groups[o]), entities)

\* C3: every returned entity's alias list holds no string twice and does
\* not hold the entity's own name.
C3_AliasesClean ==
    dpc = "done" =>
        \A o \in 1..Len(deduplicated) :
            /\ NoRepeats(deduplicated[o].aliases)
            /\ deduplicated[o].name \notin Range(deduplicated[o].aliases)

-----------------------------------------------------------------------------
(* Co-occurrence relationship builder                                      *)
(* (features/organize/services/relationship_classifier.py)                 *)

Fraction(n, d) == [num |-> n, den |-> d]

\* a >= b for fractions with positive denominators
FracGeq(a, b) == a.num * b.den >= b.num * a.den
FracEq(a, b) == a.num * b.den = b.num * a.den

\* lines 27-37
RECURSIVE find_entity_occurrences(_, _)
find_entity_occurrences(ents, acc) ==
    IF ents = <<>> THEN acc
    ELSE LET e == Head(ents)
             prev == IF e.name \in DictKeys(acc) THEN DictGet(acc, e.name) ELSE {}
             idxs == {e.sources[k].chunkIndex : k \in 1..Len(e.sources)}
         IN  find_entity_occurrences(Tail(ents), DictPut(acc, e.name, prev \cup idxs))

\* the weight with the larger footprint as the denominator
WeightOverLarger(chunks1, chunks2) ==
    IF chunks1 = {} \/ chunks2 = {} THEN Fraction(0, 1)
    ELSE IF chunks1 \cap chunks2 = {} THEN Fraction(0, 1)
    ELSE Fraction(Cardinality(chunks1 \cap chunks2),
                  Max(Cardinality(chunks1), Cardinality(chunks2)))

\* lines 55-67
calculate_cooccurrence_weight(chunks1, chunks2) ==
    IF chunks1 = {} \/ chunks2 = {} THEN Fraction(0, 1)
    ELSE LET shared == chunks1 \cap chunks2
         IN  IF shared = {} THEN Fraction(0, 1)
             ELSE LET weight == Fraction(Cardinality(shared),
                                         Min(Cardinality(chunks1), Cardinality(chunks2)))
                  IN  IF FracGeq(Fraction(1, 1), weight) THEN weight ELSE Fraction(1, 1)

MAX_EXAMPLES == 3
MAX_SNIPPET_LENGTH == 200
TRUNCATED_PREFIX_LENGTH == 197
Ellipsis == <<".", ".", ".">>

\* a cut after the whole limit, with the marker added to it
CutThenMark(snippet) ==
    IF Len(snippet) > MAX_SNIPPET_LENGTH
    THEN SubSeq(snippet, 1, MAX_SNIPPET_LENGTH) \o Ellipsis
    ELSE snippet

\* lines 117-119
TruncateSnippet(snippet) ==
    IF Len(snippet) > MAX_SNIPPET_LENGTH
    THEN SubSeq(snippet, 1, TRUNCATED_PREFIX_LENGTH) \o Ellipsis
    ELSE snippet

\* list(shared_indices)[:3]: a set is listed in an order the language does
\* not fix, so every listing without repetition is possible.
ListingsOfFirst(S, n) ==
    LET m == Min(n, Cardinality(S))
    IN  {l \in [1..m -> S] : \A a, b \in 1..m : a # b => l[a] # l[b]}

\* lines 111-120: the examples for one listing of the shared indices
RECURSIVE ExamplesFor(_, _)
ExamplesFor(listing, chunks) ==
    IF listing = <<>> THEN <<>>
    ELSE IF 0 <= Head(listing) /\ Head(listing) < Len(chunks)
         THEN <<TruncateSnippet(chunks[Head(listing) + 1])>>
              \o ExamplesFor(Tail(listing), chunks)
    ELSE ExamplesFor(Tail(listing), chunks)

\* lines 123-131
Relationship(name1, name2, weight, examples) ==
    [sourceEntity |-> name1, targetEntity |-> name2, type |-> "cooccurrence",
     relationType |-> "related_to", weight |-> weight, confidence |-> 70,
     examples |-> examples]

-----------------------------------------------------------------------------
(* Inputs of the relationship builder runs                                 *)

MaxCoocEntities == 3

Name_A == <<"A","n","n">>
Name_B == <<"B","o","b">>
Name_C == <<"C","o","r","p">>
Name_D == <<"D","a","n">>
Name_E == <<"E","v","e">>

Text_0 == <<"A","n","n"," ","m","e","t"," ","B","o","b">>
Text_1 == <<"A","n","n"," ","a","t"," ","C","o","r","p">>
Text_Long == [k \in 1..(MAX_SNIPPET_LENGTH + 5) |-> IF k % 4 = 0 THEN " " ELSE "x"]
Text_Exact == [k \in 1..MAX_SNIPPET_LENGTH |-> IF k % 5 = 0 THEN " " ELSE "y"]

\* seven chunks, indices 0..6
CoocChunks == <<Text_0, Text_1, Text_Long, Text_Exact, Text_1, Text_0, Text_Long>>

SourcesAt(idxs) == [k \in 1..Len(idxs) |-> Source(<<"s">> \o <<ToString(idxs[k])>>, idxs[k])]

\* Entities by their footprints: the footprints of the documented examples
\* ({0,1,2,3}, {0}, {0,4,5,6}; {0,1,2}, {1,2,3,4}), an entity without
\* sources, one whose only chunk index is past the chunk list, and a second
\* entity named like the first.
CoocPool ==
    { Entity(Name_A, "PERSON", 80, SourcesAt(<<0, 1, 2, 3>>), <<>>),
      Entity(Name_B, "PERSON", 80, SourcesAt(<<0>>), <<>>),
      Entity(Name_C, "ORGANIZATION", 80, SourcesAt(<<0, 4, 5, 6>>), <<>>),
      Entity(Name_D, "PERSON", 80, SourcesAt(<<1, 2, 3, 4>>), <<>>),
      Entity(Name_A, "PERSON", 80, SourcesAt(<<0, 1, 2>>), <<>>),
      Entity(Name_E, "CONCEPT", 80, <<>>, <<>>),
      Entity(Name_D, "PERSON", 80, SourcesAt(<<7>>), <<>>) }

MinWeights == {Fraction(0, 1), Fraction(3, 10), Fraction(1, 2), Fraction(1, 1)}

-----------------------------------------------------------------------------
(* build_cooccurrence_relationships, one step per pair                     *)

CoocReset ==
    /\ occurrences = <<>>
    /\ ri = 1 /\ rj = 2
    /\ relationships = <<>>

CoocIdle ==
    /\ text_chunks = <<>>
    /\ rel_entities = <<>>
    /\ min_weight = Fraction(3, 10)
    /\ rpc = "idle"
    /\ CoocReset

InitCooc ==
    /\ text_chunks \in {CoocChunks, SubSeq(CoocChunks, 1, 2)}
    /\ rel_entities \in SeqsUpTo(CoocPool, MaxCoocEntities)
    /\ min_weight \in MinWeights
    /\ rpc = "start"
    /\ CoocReset

\* entity_names = list(occurrences.keys())
EntityNameAt(k) == occurrences[k][1]
ChunksAt(k) == occurrences[k][2]
PairWeight == calculate_cooccurrence_weight(ChunksAt(ri), ChunksAt(rj))

\* lines 86-87
CoocEmpty ==
    /\ rpc = "start"
    /\ rel_entities = <<>>
    /\ rpc' = "done"
    /\ relationships' = <<>>
    /\ UNCHANGED notCoocVars
    /\ UNCHANGED <<text_chunks, rel_entities, min_weight, occurrences, ri, rj>>

\* lines 89-93
CoocIndex ==
    /\ rpc = "start"
    /\ rel_entities # <<>>
    /\ occurrences' = find_entity_occurrences(rel_entities, <<>>)
    /\ relationships' = <<>>
    /\ ri' = 1 /\ rj' = 2
    /\ rpc' = "pairs"
    /\ UNCHANGED notCoocVars
    /\ UNCHANGED <<text_chunks, rel_entities, min_weight>>

\* a threshold test that needs the weight to exceed min_weight
ExceedsThreshold(weight, threshold) == ~FracGeq(threshold, weight)

\* line 108: weight >= min_weight
ClearsThreshold(weight, threshold) == FracGeq(weight, threshold)

\* lines 100-133: the pair clears the threshold
CoocEmit ==
    /\ rpc = "pairs"
    /\ ri <= Len(occurrences) /\ rj <= Len(occurrences)
    /\ ClearsThreshold(PairWeight, min_weight)
    /\ \E listing \in ListingsOfFirst(ChunksAt(ri) \cap ChunksAt(rj), MAX_EXAMPLES) :
          relationships' = Append(relationships,
              Relationship(EntityNameAt(ri), EntityNameAt(rj), PairWeight,
                           ExamplesFor(listing, text_chunks)))
    /\ rj' = rj + 1
    /\ UNCHANGED notCoocVars
    /\ UNCHANGED <<text_chunks, rel_entities, min_weight, rpc, occurrences, ri>>

\* lines 100-108: the pair is below the threshold
CoocDrop ==
    /\ rpc = "pairs"
    /\ ri <= Len(occurrences) /\ rj <= Len(occurrences)
    /\ ~ClearsThreshold(PairWeight, min_weight)
    /\ rj' = rj + 1
    /\ UNCHANGED notCoocVars
    /\ UNCHANGED <<text_chunks, rel_entities, min_weight, rpc, occurrences, ri,
                   relationships>>

\* an inner loop that starts again from the first name
CoocNextNameFromFirst ==
    /\ rpc = "pairs"
    /\ ri <= Len(occurrences) /\ rj > Len(occurrences)
    /\ ri' = ri + 1 /\ rj' = 1
    /\ UNCHANGED notCoocVars
    /\ UNCHANGED <<text_chunks, rel_entities, min_weight, rpc, occurrences,
                   relationships>>

\* line 100 exhausted
CoocNextName ==
    /\ rpc = "pairs"
    /\ ri <= Len(occurrences) /\ rj > Len(occurrences)
    /\ ri' = ri + 1 /\ rj' = ri + 2
    /\ UNCHANGED notCoocVars
    /\ UNCHANGED <<text_chunks, rel_entities, min_weight, rpc, occurrences,
                   relationships>>

\* line 96 exhausted: lines 136-137
CoocReturn ==
    /\ rpc = "pairs"
    /\ ri > Len(occurrences)
    /\ rpc' = "done"
    /\ UNCHANGED notCoocVars
    /\ UNCHANGED <<text_chunks, rel_entities, min_weight, occurrences, ri, rj,
                   relationships>>

CoocStep ==
    \/ CoocEmpty
    \/ CoocIndex
    \/ CoocEmit
    \/ CoocDrop
    \/ CoocNextName
    \/ CoocReturn

-----------------------------------------------------------------------------
(* calculate_cooccurrence_weight called on two sets of chunk indices        *)

MaxChunkIndex == 4

WeightIdle ==
    /\ w_chunks1 = {}
    /\ w_chunks2 = {}
    /\ w_result = None

InitWeight ==
    /\ w_chunks1 \in SUBSET (0..MaxChunkIndex)
    /\ w_chunks2 \in SUBSET (0..MaxChunkIndex)
    /\ w_result = None

\* lines 55-60: one of the sets is empty, or they share nothing
WeightZero ==
    /\ w_result = None
    /\ w_chunks1 \cap w_chunks2 = {}
    /\ w_result' = Some(calculate_cooccurrence_weight(w_chunks1, w_chunks2))
    /\ UNCHANGED notWeightVars
    /\ UNCHANGED <<w_chunks1, w_chunks2>>

\* lines 62-67
WeightShared ==
    /\ w_result = None
    /\ w_chunks1 \cap w_chunks2 # {}
    /\ w_result' = Some(calculate_cooccurrence_weight(w_chunks1, w_chunks2))
    /\ UNCHANGED notWeightVars
    /\ UNCHANGED <<w_chunks1, w_chunks2>>

-----------------------------------------------------------------------------
(* Relationship classifier                                                 *)
(* (features/organize/services/relationship_classifier.py)                 *)

\* " ".join(examples)
RECURSIVE JoinWithSpace(_)
JoinWithSpace(strs) ==
    IF strs = <<>> THEN <<>>
    ELSE IF Len(strs) = 1 THEN strs[1]
    ELSE strs[1] \o <<" ">> \o JoinWithSpace(Tail(strs))

\* lines 155-184
patterns ==
  <<
    [keywords |-> <<<<"f","o","u","n","d","e","d">>,
           <<"c","o","-","f","o","u","n","d","e","d">>,
           <<"s","t","a","r","t","e","d">>,
           <<"e","s","t","a","b","l","i","s","h","e","d">>,
           <<"l","a","u","n","c","h","e","d">>>>,
     type_requirements |-> None,
     rel_type |-> "founded"],
    [keywords |-> <<<<"c","e","o">>,
           <<"c","h","i","e","f"," ","e","x","e","c","u","t","i","v","e">>,
           <<"p","r","e","s","i","d","e","n","t"," ","o","f">>,
           <<"h","e","a","d"," ","o","f">>,
           <<"d","i","r","e","c","t","o","r"," ","o","f">>>>,
     type_requirements |-> Some(<<Some("PERSON"), Some("ORGANIZATION")>>),
     rel_type |-> "ceo_of"],
    [keywords |-> <<<<"l","e","a","d","s">>,
           <<"l","e","a","d","i","n","g">>,
           <<"r","u","n","s">>,
           <<"m","a","n","a","g","e","s">>>>,
     type_requirements |-> Some(<<Some("PERSON"), Some("ORGANIZATION")>>),
     rel_type |-> "leads"],
    [keywords |-> <<<<"w","o","r","k","s"," ","a","t">>,
           <<"e","m","p","l","o","y","e","d"," ","b","y">>,
           <<"e","m","p","l","o","y","e","e"," ","o","f">>,
           <<"w","o","r","k","i","n","g"," ","a","t">>>>,
     type_requirements |-> Some(<<Some("PERSON"), Some("ORGANIZATION")>>),
     rel_type |-> "works_at"],
    [keywords |-> <<<<"j","o","i","n","e","d">>,
           <<"h","i","r","e","d"," ","b","y">>>>,
     type_requirements |-> Some(<<Some("PERSON"), Some("ORGANIZATION")>>),
     rel_type |-> "works_at"],
    [keywords |-> <<<<"a","u","t","h","o","r","e","d">>,
           <<"w","r","o","t","e">>,
           <<"p","u","b","l","i","s","h","e","d">>>>,
     type_requirements |-> Some(<<Some("PERSON"), Some("PAPER")>>),
     rel_type |-> "authored"],
    [keywords |-> <<<<"c","r","e","a","t","e","d">>,
           <<"d","e","v","e","l","o","p","e","d">>,
           <<"i","n","v","e","n","t","e","d">>,
           <<"d","e","s","i","g","n","e","d">>>>,
     type_requirements |-> None,
     rel_type |-> "created"],
    [keywords |-> <<<<"h","e","a","d","q","u","a","r","t","e","r","e","d"," ","i","n">>,
           <<"b","a","s","e","d"," ","i","n">>,
           <<"h","e","a","d","q","u","a","r","t","e","r","s"," ","i","n">>>>,
     type_requirements |-> Some(<<Some("ORGANIZATION"), Some("LOCATION")>>),
     rel_type |-> "headquartered_in"],
    [keywords |-> <<<<"l","o","c","a","t","e","d"," ","i","n">>,
           <<"s","i","t","u","a","t","e","d"," ","i","n">>,
           <<"i","n">>>>,
     type_requirements |-> Some(<<None, Some("LOCATION")>>),
     rel_type |-> "located_in"],
    [keywords |-> <<<<"b","o","r","n"," ","i","n">>>>,
     type_requirements |-> Some(<<Some("PERSON"), Some("LOCATION")>>),
     rel_type |-> "born_in"],
    [keywords |-> <<<<"l","i","v","e","s"," ","i","n">>,
           <<"r","e","s","i","d","e","s"," ","i","n">>>>,
     type_requirements |-> Some(<<Some("PERSON"), Some("LOCATION")>>),
     rel_type |-> "lives_in"],
    [keywords |-> <<<<"c","o","l","l","a","b","o","r","a","t","e","d"," ","w","i","t","h">>,
           <<"w","o","r","k","e","d"," ","w","i","t","h">>,
           <<"p","a","r","t","n","e","r","e","d"," ","w","i","t","h">>>>,
     type_requirements |-> Some(<<Some("PERSON"), Some("PERSON")>>),
     rel_type |-> "collaborated_with"],
    [keywords |-> <<<<"c","o","l","l","e","a","g","u","e">>>>,
     type_requirements |-> Some(<<Some("PERSON"), Some("PERSON")>>),
     rel_type |-> "colleague_of"],
    [keywords |-> <<<<"a","c","q","u","i","r","e","d">>,
           <<"b","o","u","g","h","t">>,
           <<"p","u","r","c","h","a","s","e","d">>>>,
     type_requirements |-> Some(<<Some("ORGANIZATION"), Some("ORGANIZATION")>>),
     rel_type |-> "acquired_by"],
    [keywords |-> <<<<"p","a","r","t"," ","o","f">>,
           <<"s","u","b","s","i","d","i","a","r","y"," ","o","f">>,
           <<"d","i","v","i","s","i","o","n"," ","o","f">>>>,
     type_requirements |-> Some(<<Some("ORGANIZATION"), Some("ORGANIZATION")>>),
     rel_type |-> "part_of"]
  >>

\* lines 192-206: the type test applied once a keyword of the rule occurs
TypesAccepted(type_requirements, source_type, target_type) ==
    IF type_requirements = None THEN TRUE
    ELSE LET req == type_requirements[1]
             types == <<source_type, target_type>>
         IN  /\ source_type # None /\ target_type # None
             /\ \/ types = req
                \/ types = <<req[2], req[1]>>
                \/ /\ (req[1] = None \/ types[1] = req[1] \/ types[2] = req[1])
                   /\ (req[2] = None \/ types[2] = req[2] \/ types[1] = req[2])

\* lines 187-208: a rule returns as soon as one of its keywords occurs in the
\* text and its type test passes (the type test does not depend on the
\* keyword and is written first)
RuleMatches(rule, text, source_type, target_type) ==
    /\ TypesAccepted(rule.type_requirements, source_type, target_type)
    /\ \E k \in 1..Len(rule.keywords) : IsSubstring(rule.keywords[k], text)

\* a classifier that never matches
ClassifyNoPattern(source_entity, target_entity, examples, source_type, target_type) ==
    None

\* a scan that ends at the first rule with a keyword in the text, whether or
\* not its type test passes
StopAtFirstKeyword(source_entity, target_entity, examples, source_type, target_type) ==
    LET text == Lower(JoinWithSpace(examples))
        hits == {k \in 1..Len(patterns) :
                    \E n \in 1..Len(patterns[k].keywords) :
                        IsSubstring(patterns[k].keywords[n], text)}
        first == CHOOSE k \in hits : \A m \in hits : k <= m
    IN  IF hits = {} THEN None
        ELSE IF RuleMatches(patterns[first], text, source_type, target_type)
             THEN Some(patterns[first].rel_type)
        ELSE None

\* lines 186-208: the loop over the table from rule k on; it returns at the
\* first rule that matches and gives None when it runs out of rules
RECURSIVE ScanPatterns(_, _, _, _)
ScanPatterns(k, text, source_type, target_type) ==
    IF k > Len(patterns) THEN None
    ELSE IF RuleMatches(patterns[k], text, source_type, target_type)
         THEN Some(patterns[k].rel_type)
    ELSE ScanPatterns(k + 1, text, source_type, target_type)

\* lines 139-208
_classify_with_patterns(source_entity, target_entity, examples, source_type, target_type) ==
    ScanPatterns(1, Lower(JoinWithSpace(examples)), source_type, target_type)

\* lines 232-235: entity_types.get(name)
RECURSIVE EntityTypes(_, _)
EntityTypes(ents, acc) ==
    IF ents = <<>> THEN acc
    ELSE EntityTypes(Tail(ents), DictPut(acc, Head(ents).name, Head(ents).type))

TypeLookup(ents_opt, name) ==
    LET entity_types == IF ents_opt = None \/ ents_opt[1] = <<>> THEN <<>>
                        ELSE EntityTypes(ents_opt[1], <<>>)
    IN  IF name \in DictKeys(entity_types) THEN Some(DictGet(entity_types, name)) ELSE None

CLASSIFY_MIN_WEIGHT == Fraction(1, 2)
PATTERN_CONFIDENCE == 85

\* an update that takes the new confidence as it is
AdoptClassification(rel, classification) ==
    [rel EXCEPT !.relationType = classification.type,
                !.confidence = classification.confidence]

\* an update that also turns the pair around
UpdateAndSwap(rel, classification) ==
    [rel EXCEPT !.relationType = classification.type,
                !.confidence = Max(rel.confidence, classification.confidence),
                !.sourceEntity = rel.targetEntity,
                !.targetEntity = rel.sourceEntity]

\* lines 276-277
UpdateRelationship(rel, classification) ==
    [rel EXCEPT !.relationType = classification.type,
                !.confidence = Max(rel.confidence, classification.confidence)]

\* a handler that drops the relationship whose classification failed
DropFailed(enhanced, rel) == enhanced

\* lines 285-288: the exception is logged and the relationship is appended
\* as it stands
AfterFailure(enhanced, rel) == Append(enhanced, rel)

-----------------------------------------------------------------------------
(* Inputs of the classifier runs                                           *)

MaxRelationships == 3

Text_Founded == <<"A","n","n"," ","c","o","-","F","o","u","n","d","e","d"," ","C","o","r","p">>
Text_Ceo == <<"A","n","n"," ","i","s"," ","C","E","O"," ","o","f"," ","C","o","r","p">>
Text_And == <<"B","o","b"," ","a","n","d"," ","D","a","n">>

Rel(name1, name2, weight, confidence, examples) ==
    [Relationship(name1, name2, weight, examples) EXCEPT !.confidence = confidence]

\* Relationships above, at and below the classification bar, with examples
\* that match an untyped rule, a typed rule and no rule,
\* and with prior confidences below and above the pattern confidence.  The
\* one below the bar has an example that matches a rule.
ClassifyPool ==
    { Rel(Name_A, Name_C, Fraction(4, 5), 70, <<Text_Founded>>),
      Rel(Name_A, Name_C, Fraction(1, 1), 90, <<Text_0, Text_Founded>>),
      Rel(Name_A, Name_C, Fraction(1, 1), 70, <<Text_Ceo>>),
      Rel(Name_A, Name_B, Fraction(1, 2), 90, <<Text_0>>),
      Rel(Name_A, Name_C, Fraction(1, 5), 50, <<Text_Founded>>) }

ClassifyEntities ==
    << Entity(Name_A, "PERSON", 80, <<>>, <<>>),
       Entity(Name_B, "PERSON", 80, <<>>, <<>>),
       Entity(Name_C, "ORGANIZATION", 80, <<>>, <<>>),
       Entity(Name_D, "PERSON", 80, <<>>, <<>>) >>

\* What the model collaborator may report for a call: a type with a
\* confidence, in hundredths.  The confidence is float() of what the model
\* wrote and is not limited to [0, 1].
ModelAnswers ==
    { [type |-> "works_at", confidence |-> 95],
      [type |-> "works_at", confidence |-> 150],
      [type |-> "related_to", confidence |-> -30] }

DelayChoices == {0, 500}

-----------------------------------------------------------------------------
(* classify_relationships_with_llm, one step per relationship              *)

ClassifyReset ==
    /\ cidx = 1
    /\ enhanced_relationships = <<>>
    /\ calls = <<>>
    /\ sleeps = <<>>

ClassifyIdle ==
    /\ cl_relationships = <<>>
    /\ cl_client = "none"
    /\ cl_entities = None
    /\ delay_ms = 500
    /\ cpc = "idle"
    /\ ClassifyReset

InitClassify ==
    /\ cl_relationships \in SeqsUpTo(ClassifyPool, MaxRelationships)
    /\ cl_client = "collaborator"
    /\ cl_entities \in {None, Some(ClassifyEntities)}
    /\ delay_ms \in DelayChoices
    /\ cpc = "loop"
    /\ ClassifyReset

CurrentRel == cl_relationships[cidx]
SourceType == TypeLookup(cl_entities, CurrentRel.sourceEntity)
TargetType == TypeLookup(cl_entities, CurrentRel.targetEntity)
PatternType ==
    _classify_with_patterns(CurrentRel.sourceEntity, CurrentRel.targetEntity,
                            CurrentRel.examples, SourceType, TargetType)

\* lines 282-283: idx < total - 1 with the source's 0-based idx
SleepsAfter(k) ==
    IF k < Len(cl_relationships) /\ delay_ms > 0 THEN Append(sleeps, k) ELSE sleeps

CallRecord(outcome, answer) ==
    [at |-> cidx, outcome |-> outcome, answer |-> answer, entity1 |-> CurrentRel.sourceEntity, entity2 |-> CurrentRel.targetEntity,
     snippets |-> CurrentRel.examples, source_type |-> SourceType,
     target_type |-> TargetType]

\* a bar that the weight has to exceed
AboveBar(weight) == ~FracGeq(CLASSIFY_MIN_WEIGHT, weight)

\* line 243: rel.weight >= 0.5
ReachesBar(weight) == FracGeq(weight, CLASSIFY_MIN_WEIGHT)

\* lines 243, 288: below the bar, appended as it is
ClassifySkip ==
    /\ cpc = "loop"
    /\ cidx <= Len(cl_relationships)
    /\ ~ReachesBar(CurrentRel.weight)
    /\ enhanced_relationships' = Append(enhanced_relationships, CurrentRel)
    /\ cidx' = cidx + 1
    /\ UNCHANGED notClassifyVars
    /\ UNCHANGED <<cl_relationships, cl_client, cl_entities, delay_ms, cpc, calls, sleeps>>

\* lines 243-263, 275-288: a pattern rule matched
ClassifyPattern ==
    /\ cpc = "loop"
    /\ cidx <= Len(cl_relationships)
    /\ ReachesBar(CurrentRel.weight)
    /\ PatternType # None
    /\ enhanced_relationships' = Append(enhanced_relationships,
          UpdateRelationship(CurrentRel,
              [type |-> PatternType[1], confidence |-> PATTERN_CONFIDENCE]))
    /\ sleeps' = SleepsAfter(cidx)
    /\ cidx' = cidx + 1
    /\ UNCHANGED notClassifyVars
    /\ UNCHANGED <<cl_relationships, cl_client, cl_entities, delay_ms, cpc, calls>>

\* lines 264-288: no rule matched and the collaborator answered
ClassifyModel ==
    /\ cpc = "loop"
    /\ cidx <= Len(cl_relationships)
    /\ ReachesBar(CurrentRel.weight)
    /\ PatternType = None
    /\ cl_client = "collaborator"
    /\ \E classification \in ModelAnswers :
          /\ enhanced_relationships' = Append(enhanced_relationships,
                 UpdateRelationship(CurrentRel, classification))
          /\ calls' = Append(calls, CallRecord("answered", Some(classification)))
    /\ sleeps' = SleepsAfter(cidx)
    /\ cidx' = cidx + 1
    /\ UNCHANGED notClassifyVars
    /\ UNCHANGED <<cl_relationships, cl_client, cl_entities, delay_ms, cpc>>

\* lines 264-273, 285-288: no rule matched and the collaborator raised
ClassifyModelRaises ==
    /\ cpc = "loop"
    /\ cidx <= Len(cl_relationships)
    /\ ReachesBar(CurrentRel.weight)
    /\ PatternType = None
    /\ cl_client = "collaborator"
    /\ enhanced_relationships' = AfterFailure(enhanced_relationships, CurrentRel)
    /\ calls' = Append(calls, CallRecord("raised", None))
    /\ cidx' = cidx + 1
    /\ UNCHANGED notClassifyVars
    /\ UNCHANGED <<cl_relationships, cl_client, cl_entities, delay_ms, cpc, sleeps>>

\* lines 267, 285-288: no rule matched and the object passed as gemini_client
\* is a list of str, which has no classify_relationship: the attribute
\* lookup raises AttributeError and no collaborator is invoked
ClassifyNoSuchMethod ==
    /\ cpc = "loop"
    /\ cidx <= Len(cl_relationships)
    /\ ReachesBar(CurrentRel.weight)
    /\ PatternType = None
    /\ cl_client = "list of str"
    /\ enhanced_relationships' = AfterFailure(enhanced_relationships, CurrentRel)
    /\ cidx' = cidx + 1
    /\ UNCHANGED notClassifyVars
    /\ UNCHANGED <<cl_relationships, cl_client, cl_entities, delay_ms, cpc, calls, sleeps>>

\* lines 290-291
ClassifyReturn ==
    /\ cpc = "loop"
    /\ cidx > Len(cl_relationships)
    /\ cpc' = "done"
    /\ UNCHANGED notClassifyVars
    /\ UNCHANGED <<cl_relationships, cl_client, cl_entities, delay_ms, cidx,
                   enhanced_relationships, calls, sleeps>>

-----------------------------------------------------------------------------
(* Tagger extraction (features/organize/services/entity_extractor.py)      *)

\* lines 9-20
LABEL_MAP ==
    << <<"PERSON", "PERSON">>, <<"ORG", "ORGANIZATION">>, <<"GPE", "LOCATION">>,
       <<"LOC", "LOCATION">>, <<"DATE", "DATE">>, <<"WORK_OF_ART", "PAPER">>,
       <<"PRODUCT", "CONCEPT">>, <<"EVENT", "CONCEPT">>, <<"LAW", "CONCEPT">>,
       <<"LANGUAGE", "CONCEPT">> >>

BASE_CONFIDENCE == 60
MAX_LENGTH_BOOST == 20
MAX_NEW_CONFIDENCE == 95
MIN_NAME_LENGTH == 2
SNIPPET_WINDOW == 50
REPEAT_BOOST == 5
MAX_REPEAT_CONFIDENCE == 99

\* s[a:b] for 0 <= a
Slice(s, a, b) == SubSeq(s, a + 1, Min(b, Len(s)))

\* str.replace("\n", " ")
NewlinesToSpaces(s) == [k \in 1..Len(s) |-> IF s[k] = "\n" THEN " " ELSE s[k]]

\* ent.text.strip()
CleanName(chunk, ent) == Strip(Slice(chunk, ent.start_char, ent.end_char))

\* lines 54-55, in hundredths: len(clean_name) * 0.01 is len hundredths
NewConfidence(clean_name) ==
    Min(MAX_NEW_CONFIDENCE, BASE_CONFIDENCE + Min(MAX_LENGTH_BOOST, Len(clean_name)))

\* lines 59-61
SnippetText(chunk, ent) ==
    LET start == Max(0, ent.start_char - SNIPPET_WINDOW)
        end == Min(Len(chunk), ent.end_char + SNIPPET_WINDOW)
    IN  Strip(NewlinesToSpaces(Slice(chunk, start, end)))

\* lines 69-74
MergeMention(existing, source) ==
    [existing EXCEPT !.sources = Append(existing.sources, source),
                     !.confidence = Min(MAX_REPEAT_CONFIDENCE,
                                        existing.confidence + REPEAT_BOOST)]

-----------------------------------------------------------------------------
(* Inputs of the tagger runs                                               *)

MaxChunks == 2

Text_Twice == <<"A","n","n"," ","s","a","w"," ","A","n","n">>
Text_Count == <<"5"," ","o","f"," ","X"," ","\n","I","n","c">>
\* "Ann", 114 other characters, "Ann": the two mentions are more than two
\* windows apart
Text_Apart ==
    Name_A \o [k \in 1..(2 * SNIPPET_WINDOW + 14) |-> IF k % 7 = 1 THEN " " ELSE "z"]
           \o <<" ">> \o Name_A

Span(label, start_char, end_char) ==
    [label_ |-> label, start_char |-> start_char, end_char |-> end_char]

\* A chunk with what the tagger found in it: a chunk naming two people, one
\* naming the same person twice, one naming a person and an organization,
\* one with a label outside LABEL_MAP, a one-letter name and a span that
\* starts with whitespace, and a long chunk naming one person twice.
TaggedChunks ==
    { [chunk |-> Text_0, ents |-> <<Span("PERSON", 0, 3), Span("PERSON", 8, 11)>>],
      [chunk |-> Text_Twice, ents |-> <<Span("PERSON", 0, 3), Span("PERSON", 8, 11)>>],
      [chunk |-> Text_1, ents |-> <<Span("PERSON", 0, 3), Span("ORG", 7, 11)>>],
      [chunk |-> Text_Count,
       ents |-> <<Span("CARDINAL", 0, 1), Span("ORG", 5, 6), Span("ORG", 6, 11)>>],
      [chunk |-> Text_Apart,
       ents |-> <<Span("PERSON", 0, 3), Span("PERSON", Len(Text_Apart) - 3, Len(Text_Apart))>>] }

-----------------------------------------------------------------------------
(* extract_entities_spacy, one step per mention                            *)

ExtractReset ==
    /\ xc = 1 /\ xm = 1
    /\ entities_map = <<>>

ExtractIdle ==
    /\ tagged = <<>>
    /\ xpc = "idle"
    /\ ExtractReset

InitExtract ==
    /\ tagged \in SeqsUpTo(TaggedChunks, MaxChunks)
    /\ xpc = "chunks"
    /\ ExtractReset

CurrentChunk == tagged[xc].chunk
CurrentEnt == tagged[xc].ents[xm]
InMention == xpc = "chunks" /\ xc <= Len(tagged) /\ xm <= Len(tagged[xc].ents)

\* lines 41-42
ExtractSkipLabel ==
    /\ InMention
    /\ CurrentEnt.label_ \notin DictKeys(LABEL_MAP)
    /\ xm' = xm + 1
    /\ UNCHANGED notExtractVars
    /\ UNCHANGED <<tagged, xpc, xc, entities_map>>

\* lines 44-49
ExtractSkipShort ==
    /\ InMention
    /\ CurrentEnt.label_ \in DictKeys(LABEL_MAP)
    /\ Len(CleanName(CurrentChunk, CurrentEnt)) < MIN_NAME_LENGTH
    /\ xm' = xm + 1
    /\ UNCHANGED notExtractVars
    /\ UNCHANGED <<tagged, xpc, xc, entities_map>>

\* lines 44-67, 75-83: the first mention of a name
ExtractNew ==
    /\ InMention
    /\ CurrentEnt.label_ \in DictKeys(LABEL_MAP)
    /\ LET clean_name == CleanName(CurrentChunk, CurrentEnt)
           source == Source(SnippetText(CurrentChunk, CurrentEnt), xc - 1)
       IN  /\ Len(clean_name) >= MIN_NAME_LENGTH
           /\ clean_name \notin DictKeys(entities_map)
           /\ entities_map' = DictPut(entities_map, clean_name,
                 Entity(clean_name, DictGet(LABEL_MAP, CurrentEnt.label_),
                        NewConfidence(clean_name), <<source>>, <<>>))
    /\ xm' = xm + 1
    /\ UNCHANGED notExtractVars
    /\ UNCHANGED <<tagged, xpc, xc>>

\* lines 44-74: a later mention of a name
ExtractAgain ==
    /\ InMention
    /\ CurrentEnt.label_ \in DictKeys(LABEL_MAP)
    /\ LET clean_name == CleanName(CurrentChunk, CurrentEnt)
           source == Source(SnippetText(CurrentChunk, CurrentEnt), xc - 1)
       IN  /\ Len(clean_name) >= MIN_NAME_LENGTH
           /\ clean_name \in DictKeys(entities_map)
           /\ entities_map' = DictPut(entities_map, clean_name,
                 MergeMention(DictGet(entities_map, clean_name), source))
    /\ xm' = xm + 1
    /\ UNCHANGED notExtractVars
    /\ UNCHANGED <<tagged, xpc, xc>>

\* line 37: the next chunk
ExtractNextChunk ==
    /\ xpc = "chunks"
    /\ xc <= Len(tagged)
    /\ xm > Len(tagged[xc].ents)
    /\ xc' = xc + 1
    /\ xm' = 1
    /\ UNCHANGED notExtractVars
    /\ UNCHANGED <<tagged, xpc, entities_map>>

\* line 85
ExtractReturn ==
    /\ xpc = "chunks"
    /\ xc > Len(tagged)
    /\ xpc' = "done"
    /\ UNCHANGED notExtractVars
    /\ UNCHANGED <<tagged, xc, xm, entities_map>>

\* list(entities_map.values())
ExtractedEntities == [k \in 1..Len(entities_map) |-> entities_map[k][2]]

ExtractStep ==
    \/ ExtractSkipLabel
    \/ ExtractSkipShort
    \/ ExtractNew
    \/ ExtractAgain
    \/ ExtractNextChunk
    \/ ExtractReturn

-----------------------------------------------------------------------------
(* extract_graph (features/organize/routes.py)                             *)

PIPELINE_MIN_WEIGHT == Fraction(3, 10)
TOP_K == 20
DEFAULT_DELAY_MS == 500

\* the position of r in a list sorted by weight, highest first, that keeps
\* the order of equal weights: after everything at least as heavy
InsertByWeight(sorted, r) ==
    LET before == {k \in 1..Len(sorted) : FracGeq(sorted[k].weight, r.weight)}
        n == Cardinality(before)
    IN  SubSeq(sorted, 1, n) \o <<r>> \o SubSeq(sorted, n + 1, Len(sorted))

\* a sort that leaves the list as it was built
KeepBuildOrder(rels) == rels

\* line 82: relationships.sort(key=lambda x: x.weight, reverse=True)
RECURSIVE SortByWeightDesc(_)
SortByWeightDesc(rels) ==
    IF rels = <<>> THEN <<>>
    ELSE InsertByWeight(SortByWeightDesc(SubSeq(rels, 1, Len(rels) - 1)), rels[Len(rels)])

-----------------------------------------------------------------------------
(* Requests                                                                *)

MaxPipeEntities == 3

Name_F == <<"F","a","y">>
Name_G == <<"G","u","s">>
Text_All == <<"A","n","n"," ","B","o","b"," ","C","o","r","p"," ","D","a","n"," ",
              "E","v","e"," ","F","a","y"," ","G","u","s"," ","m","e","t">>

StoryChunks == <<Text_Founded, Text_Ceo, Text_0, Text_And, Text_AI, Text_ML>>
CrowdChunks == <<Text_All, Name_B, Name_C, Name_D, Name_E, Name_F>>

\* an entity found in the chunks with the given indices, each source
\* quoting its chunk
Found(name, type, chunks, idxs, embedding) ==
    [entity |-> Entity(name, type, 65,
                       [k \in 1..Len(idxs) |-> Source(chunks[idxs[k] + 1], idxs[k])], <<>>),
     embedding |-> embedding]

\* What extraction may find in the story: people and an organization that
\* share chunks often, at the classification bar and below it, and three
\* concepts of which two have one name after normalisation and the third is
\* close to the first by its vector only.  The organization comes in two
\* findings, one of them with the second chunk as its only source.
StoryPool ==
    { Found(Name_A, "PERSON", StoryChunks, <<0, 1, 2>>, Some(<<1, 0>>)),
      Found(Name_C, "ORGANIZATION", StoryChunks, <<0, 1>>, Some(<<0, 1>>)),
      Found(Name_C, "ORGANIZATION", StoryChunks, <<1>>, Some(<<0, 1>>)),
      Found(Name_B, "PERSON", StoryChunks, <<2, 3>>, Some(<<0, 1>>)),
      Found(Name_E, "PERSON", StoryChunks, <<2, 4, 5>>, Some(<<1, 1>>)),
      Found(Name_AI, "CONCEPT", StoryChunks, <<4>>, Some(<<1, 0>>)),
      Found(Name_AI_dotted, "CONCEPT", StoryChunks, <<5>>, Some(<<0, 1>>)),
      Found(Name_ML, "CONCEPT", StoryChunks, <<4, 5>>, Some(<<5, 2>>)) }

\* Seven entities that all occur in the first chunk: twenty-one pairs
CrowdFound ==
    << Found(Name_A, "PERSON", CrowdChunks, <<0>>, Some(<<1, 0>>)),
       Found(Name_B, "PERSON", CrowdChunks, <<0, 1>>, Some(<<0, 1>>)),
       Found(Name_C, "ORGANIZATION", CrowdChunks, <<0, 2>>, Some(<<1, 0>>)),
       Found(Name_D, "PERSON", CrowdChunks, <<0, 3>>, Some(<<-1, 0>>)),
       Found(Name_E, "PERSON", CrowdChunks, <<0, 4>>, Some(<<0, -1>>)),
       Found(Name_F, "PERSON", CrowdChunks, <<0, 5>>, Some(<<1, 1>>)),
       Found(Name_G, "PERSON", CrowdChunks, <<0>>, Some(<<-1, -1>>)) >>

\* extraction keys its entities by name: no name comes out twice
DistinctlyNamed(items) ==
    \A a, b \in 1..Len(items) : a # b => items[a].entity.name # items[b].entity.name

Requests ==
    { [textChunks |-> StoryChunks,
       extractions |-> {items \in SeqsUpTo(StoryPool, MaxPipeEntities) :
                           DistinctlyNamed(items)}],
      [textChunks |-> CrowdChunks, extractions |-> {CrowdFound}] }

\* generate_embeddings returns one entry per name: a vector, or None where
\* the embedding request failed
EmbeddingsFor(items) ==
    { [k \in 1..Len(items) |-> items[k].embedding], [k \in 1..Len(items) |-> None] }

-----------------------------------------------------------------------------
(* extract_graph, one step per stage                                       *)

PipeIdle ==
    /\ p_chunks = <<>>
    /\ ppc = "idle"
    /\ remaining_relationships = <<>>
    /\ response = None

InitPipeline ==
    /\ p_chunks \in {r.textChunks : r \in Requests}
    /\ ppc = "extract"
    /\ remaining_relationships = <<>>
    /\ response = None

\* lines 34-54: stages 1 and 2, entities and one embedding entry for each
PipeExtract ==
    /\ ppc = "extract"
    /\ \E r \in Requests :
          /\ r.textChunks = p_chunks
          /\ \E items \in r.extractions :
                /\ entities' = [k \in 1..Len(items) |-> items[k].entity]
                /\ embeddings' \in EmbeddingsFor(items)
    /\ dpc' = "start"
    /\ ppc' = "dedup"
    /\ UNCHANGED <<type_groups, merge_map, dg, di, dj, db, deduplicated, groups>>
    /\ UNCHANGED <<coocVars, weightVars, classifyVars, extractVars, hybridVars, retryVars,
                 embedVars, abbrevVars, patternVars>>
    /\ UNCHANGED <<p_chunks, remaining_relationships, response>>

\* lines 105-107: an exception of a stage (the tagger model cannot be
\* loaded) is answered with status 500
PipeFail ==
    /\ ppc = "extract"
    /\ ppc' = "failed"
    /\ response' = Some([status |-> 500])
    /\ UNCHANGED <<dedupVars, coocVars, weightVars, classifyVars, extractVars, hybridVars, retryVars,
                 embedVars, abbrevVars, patternVars>>
    /\ UNCHANGED <<p_chunks, remaining_relationships>>

\* lines 64-71: stage 4 on the deduplicated entities
PipeBuild ==
    /\ ppc = "dedup"
    /\ dpc = "done"
    /\ text_chunks' = p_chunks
    /\ rel_entities' = deduplicated
    /\ min_weight' = PIPELINE_MIN_WEIGHT
    /\ rpc' = "start"
    /\ ppc' = "cooc"
    /\ UNCHANGED <<occurrences, ri, rj, relationships>>
    /\ UNCHANGED <<dedupVars, weightVars, classifyVars, extractVars, hybridVars, retryVars,
                 embedVars, abbrevVars, patternVars>>
    /\ UNCHANGED <<p_chunks, remaining_relationships, response>>

\* lines 82-92: sort, split at TOP_K and call the classifier with
\* request.textChunks in the place of gemini_client and without entities
PipeClassify ==
    /\ ppc = "cooc"
    /\ rpc = "done"
    /\ LET sorted == SortByWeightDesc(relationships)
       IN  /\ relationships' = sorted
           /\ cl_relationships' = SubSeq(sorted, 1, Min(TOP_K, Len(sorted)))
           /\ remaining_relationships' = SubSeq(sorted, TOP_K + 1, Len(sorted))
    /\ cl_client' = "list of str"
    /\ cl_entities' = None
    /\ delay_ms' = DEFAULT_DELAY_MS
    /\ cpc' = "loop"
    /\ ppc' = "classify"
    /\ UNCHANGED <<cidx, enhanced_relationships, calls, sleeps>>
    /\ UNCHANGED <<text_chunks, rel_entities, min_weight, rpc, occurrences, ri, rj>>
    /\ UNCHANGED <<dedupVars, weightVars, extractVars, hybridVars, retryVars,
                 embedVars, abbrevVars, patternVars>>
    /\ UNCHANGED <<p_chunks, response>>

\* lines 95-104
PipeRespond ==
    /\ ppc = "classify"
    /\ cpc = "done"
    /\ response' = Some([status |-> 200, entities |-> deduplicated,
                         relationships |-> enhanced_relationships
                                             \o remaining_relationships])
    /\ ppc' = "done"
    /\ UNCHANGED <<dedupVars, coocVars, weightVars, classifyVars, extractVars, hybridVars, retryVars,
                 embedVars, abbrevVars, patternVars>>
    /\ UNCHANGED <<p_chunks, remaining_relationships>>

-----------------------------------------------------------------------------
(* Tagger and model merge (features/organize/services/entity_extractor.py) *)

GEMINI_CONFIDENCE_CAP == 92
GEMINI_DEFAULT_CONFIDENCE == 70
GEMINI_REPEAT_BOOST == 2
GEMINI_SNIPPET_LENGTH == 200
BOTH_BOOST == 5
MAX_BOTH_CONFIDENCE == 98
GEMINI_ONLY_MIN_CONFIDENCE == 55

\* schemas/extract.py line 5
EntityType == {"PERSON", "ORGANIZATION", "CONCEPT", "DATE", "PAPER", "LOCATION"}

\* schemas/extract.py lines 17-22: what the ExtractedEntity constructor accepts
IsValidEntity(type, confidence) ==
    /\ type \in EntityType
    /\ confidence >= 0
    /\ confidence <= 100

\* line 139: ent_data.get("name", "").strip(); a missing key reads as ""
CandidateName(ent_data) == Strip(ent_data.name)

\* line 140
CandidateType(ent_data) ==
    IF ent_data.type = None THEN "CONCEPT" ELSE ent_data.type[1]

\* line 141
CandidateConfidence(ent_data) ==
    Min(GEMINI_CONFIDENCE_CAP,
        IF ent_data.confidence = None THEN GEMINI_DEFAULT_CONFIDENCE
        ELSE ent_data.confidence[1])

\* lines 147-151
GeminiSource(chunk, chunk_index) ==
    Source(Slice(chunk, 0, GEMINI_SNIPPET_LENGTH), chunk_index)

\* lines 154-155
RepeatCandidate(existing, source) ==
    [existing EXCEPT !.sources = Append(existing.sources, source),
                     !.confidence = Min(GEMINI_CONFIDENCE_CAP,
                                        existing.confidence + GEMINI_REPEAT_BOOST)]

ForgetCandidates(candidates_map) == <<>>

\* lines 165-170: the handlers log and continue; the map is left as it is
AfterChunkFailure(candidates_map) == candidates_map

\* lines 173-177
RECURSIVE ByName(_, _)
ByName(ents, acc) ==
    IF ents = <<>> THEN acc
    ELSE ByName(Tail(ents), DictPut(acc, Head(ents).name, Head(ents)))

\* lines 183-188
BoostBoth(existing, gemini_entity) ==
    LET existing_snippets ==
            {existing.sources[k].snippet : k \in 1..Len(existing.sources)}
        IsNewSnippet(source) == source.snippet \notin existing_snippets
    IN  [existing EXCEPT
            !.confidence = Min(MAX_BOTH_CONFIDENCE, existing.confidence + BOTH_BOOST),
            !.sources = existing.sources \o SelectSeq(gemini_entity.sources, IsNewSnippet)]

KeepsEveryModelOnly(gemini_entity) == TRUE

\* line 192
KeepsModelOnly(gemini_entity) ==
    gemini_entity.confidence >= GEMINI_ONLY_MIN_CONFIDENCE

-----------------------------------------------------------------------------
(* Inputs of the merge runs                                                *)

MaxHybridChunks == 2

\* "Ann Ann ... Ann", nine times
Text_Chorus == [k \in 1..35 |-> <<"A","n","n"," ">>[((k - 1) % 4) + 1]]

\* Chunks with what the tagger finds in them: two people; a label outside
\* LABEL_MAP, a one-letter name and an organization; and one person named
\* nine times.
HybridTagged ==
    { [chunk |-> Text_0, ents |-> <<Span("PERSON", 0, 3), Span("PERSON", 8, 11)>>],
      [chunk |-> Text_Count,
       ents |-> <<Span("CARDINAL", 0, 1), Span("ORG", 5, 6), Span("ORG", 6, 11)>>],
      [chunk |-> Text_Chorus,
       ents |-> [j \in 1..9 |-> Span("PERSON", 4 * (j - 1), 4 * (j - 1) + 3)]] }

\* One item of the reply's "entities" list; a missing type or confidence is None
Candidate(name, type, confidence) ==
    [name |-> name, type |-> type, confidence |-> confidence]

Reply(kind, candidates) == [kind |-> kind, candidates |-> candidates]

\* What the model call can give for a chunk: a reply that names a person the
\* tagger knows, with another type, and a weak newcomer; a reply with a
\* padded name that has neither type nor confidence, a one-letter name, the
\* weak newcomer again, another person the tagger knows, a type outside
\* EntityType and a candidate after it; a reply that is not JSON; and a call
\* that raises.
Replies ==
    { Reply("json", << Candidate(Name_A, Some("CONCEPT"), Some(97)),
                       Candidate(Name_D, Some("PERSON"), Some(54)) >>),
      Reply("json", << Candidate(<<" ">> \o Name_E \o <<" ">>, None, None),
                       Candidate(<<"E">>, Some("PERSON"), Some(90)),
                       Candidate(Name_D, Some("LOCATION"), Some(53)),
                       Candidate(Name_B, Some("ORGANIZATION"), Some(60)),
                       Candidate(Name_F, Some("TECHNOLOGY"), Some(80)),
                       Candidate(Name_G, Some("PERSON"), Some(80)) >>),
      Reply("not json", <<>>),
      Reply("raises", <<>>) }

-----------------------------------------------------------------------------
(* extract_entities_with_gemini, one step per candidate                    *)

HybridReset ==
    /\ hc = 1 /\ he = 1 /\ hm = 1
    /\ spacy_entities = <<>>
    /\ gemini_entities_map = <<>>
    /\ merged_entities = <<>>
    /\ h_returned = None

HybridIdle ==
    /\ use_gemini = FALSE
    /\ h_model = FALSE
    /\ replies = <<>>
    /\ hpc = "idle"
    /\ HybridReset

\* The model is called only when it is enabled and present: only then is
\* there a reply for each chunk.
InitHybrid ==
    /\ tagged \in SeqsUpTo(HybridTagged, MaxHybridChunks)
    /\ xpc = "chunks"
    /\ ExtractReset
    /\ use_gemini \in BOOLEAN
    /\ h_model \in BOOLEAN
    /\ replies \in IF use_gemini /\ h_model
                   THEN [1..Len(tagged) -> Replies]
                   ELSE {<<>>}
    /\ hpc = "tagger"
    /\ HybridReset

\* line 108: extract_entities_spacy has returned
HybridTagger ==
    /\ hpc = "tagger"
    /\ xpc = "done"
    /\ spacy_entities' = ExtractedEntities
    /\ hpc' = "gate"
    /\ UNCHANGED notHybridVars
    /\ UNCHANGED <<use_gemini, h_model, replies, hc, he, gemini_entities_map,
                   merged_entities, hm, h_returned>>

\* lines 111-113
HybridDisabled ==
    /\ hpc = "gate"
    /\ ~use_gemini
    /\ h_returned' = Some(spacy_entities)
    /\ hpc' = "done"
    /\ UNCHANGED notHybridVars
    /\ UNCHANGED <<use_gemini, h_model, replies, hc, he, spacy_entities,
                   gemini_entities_map, merged_entities, hm>>

\* lines 115-119
HybridNoModel ==
    /\ hpc = "gate"
    /\ use_gemini
    /\ ~h_model
    /\ h_returned' = Some(spacy_entities)
    /\ hpc' = "done"
    /\ UNCHANGED notHybridVars
    /\ UNCHANGED <<use_gemini, h_model, replies, hc, he, spacy_entities,
                   gemini_entities_map, merged_entities, hm>>

\* lines 115-122
HybridEnter ==
    /\ hpc = "gate"
    /\ use_gemini
    /\ h_model
    /\ gemini_entities_map' = <<>>
    /\ hpc' = "chunks"
    /\ UNCHANGED notHybridVars
    /\ UNCHANGED <<use_gemini, h_model, replies, hc, he, spacy_entities,
                   merged_entities, hm, h_returned>>

InChunk == hpc = "chunks" /\ hc <= Len(replies)
InReply == InChunk /\ replies[hc].kind = "json" /\ he <= Len(replies[hc].candidates)
ent_data == replies[hc].candidates[he]

\* lines 127-135, 165-170: the call raises or the reply is not JSON
HybridChunkFails ==
    /\ InChunk
    /\ replies[hc].kind \in {"raises", "not json"}
    /\ gemini_entities_map' = AfterChunkFailure(gemini_entities_map)
    /\ hc' = hc + 1
    /\ he' = 1
    /\ UNCHANGED notHybridVars
    /\ UNCHANGED <<use_gemini, h_model, replies, hpc, spacy_entities,
                   merged_entities, hm, h_returned>>

\* lines 139-144
HybridSkipShort ==
    /\ InReply
    /\ Len(CandidateName(ent_data)) < MIN_NAME_LENGTH
    /\ he' = he + 1
    /\ UNCHANGED notHybridVars
    /\ UNCHANGED <<use_gemini, h_model, replies, hpc, hc, spacy_entities,
                   gemini_entities_map, merged_entities, hm, h_returned>>

\* lines 153-155: a name the map has
HybridCandidateAgain ==
    /\ InReply
    /\ LET name == CandidateName(ent_data)
       IN  /\ Len(name) >= MIN_NAME_LENGTH
           /\ name \in DictKeys(gemini_entities_map)
           /\ gemini_entities_map' = DictPut(gemini_entities_map, name,
                 RepeatCandidate(DictGet(gemini_entities_map, name),
                                 GeminiSource(tagged[hc].chunk, hc - 1)))
    /\ he' = he + 1
    /\ UNCHANGED notHybridVars
    /\ UNCHANGED <<use_gemini, h_model, replies, hpc, hc, spacy_entities,
                   merged_entities, hm, h_returned>>

\* lines 156-163: a name the map does not have
HybridCandidateNew ==
    /\ InReply
    /\ LET name == CandidateName(ent_data)
       IN  /\ Len(name) >= MIN_NAME_LENGTH
           /\ name \notin DictKeys(gemini_entities_map)
           /\ IsValidEntity(CandidateType(ent_data), CandidateConfidence(ent_data))
           /\ gemini_entities_map' = DictPut(gemini_entities_map, name,
                 Entity(name, CandidateType(ent_data), CandidateConfidence(ent_data),
                        <<GeminiSource(tagged[hc].chunk, hc - 1)>>, <<>>))
    /\ he' = he + 1
    /\ UNCHANGED notHybridVars
    /\ UNCHANGED <<use_gemini, h_model, replies, hpc, hc, spacy_entities,
                   merged_entities, hm, h_returned>>

\* lines 157-163, 168-170: the constructor rejects the candidate, and the
\* handler leaves the rest of the reply unread
HybridCandidateInvalid ==
    /\ InReply
    /\ LET name == CandidateName(ent_data)
       IN  /\ Len(name) >= MIN_NAME_LENGTH
           /\ name \notin DictKeys(gemini_entities_map)
           /\ ~IsValidEntity(CandidateType(ent_data), CandidateConfidence(ent_data))
    /\ gemini_entities_map' = AfterChunkFailure(gemini_entities_map)
    /\ hc' = hc + 1
    /\ he' = 1
    /\ UNCHANGED notHybridVars
    /\ UNCHANGED <<use_gemini, h_model, replies, hpc, spacy_entities,
                   merged_entities, hm, h_returned>>

\* line 124: the next chunk
HybridNextChunk ==
    /\ InChunk
    /\ replies[hc].kind = "json"
    /\ he > Len(replies[hc].candidates)
    /\ hc' = hc + 1
    /\ he' = 1
    /\ UNCHANGED notHybridVars
    /\ UNCHANGED <<use_gemini, h_model, replies, hpc, spacy_entities,
                   gemini_entities_map, merged_entities, hm, h_returned>>

\* lines 173-177
HybridMergeStart ==
    /\ hpc = "chunks"
    /\ hc > Len(replies)
    /\ merged_entities' = ByName(spacy_entities, <<>>)
    /\ hm' = 1
    /\ hpc' = "merge"
    /\ UNCHANGED notHybridVars
    /\ UNCHANGED <<use_gemini, h_model, replies, hc, he, spacy_entities,
                   gemini_entities_map, h_returned>>

InMerge == hpc = "merge" /\ hm <= Len(gemini_entities_map)
gemini_entity == gemini_entities_map[hm][2]

\* lines 181-189
HybridBoost ==
    /\ InMerge
    /\ gemini_entity.name \in DictKeys(merged_entities)
    /\ merged_entities' = DictPut(merged_entities, gemini_entity.name,
          BoostBoth(DictGet(merged_entities, gemini_entity.name), gemini_entity))
    /\ hm' = hm + 1
    /\ UNCHANGED notHybridVars
    /\ UNCHANGED <<use_gemini, h_model, replies, hpc, hc, he, spacy_entities,
                   gemini_entities_map, h_returned>>

\* lines 190-194
HybridAdopt ==
    /\ InMerge
    /\ gemini_entity.name \notin DictKeys(merged_entities)
    /\ KeepsModelOnly(gemini_entity)
    /\ merged_entities' = DictPut(merged_entities, gemini_entity.name, gemini_entity)
    /\ hm' = hm + 1
    /\ UNCHANGED notHybridVars
    /\ UNCHANGED <<use_gemini, h_model, replies, hpc, hc, he, spacy_entities,
                   gemini_entities_map, h_returned>>

\* lines 190-192: a weak model-only candidate is left out
HybridDiscard ==
    /\ InMerge
    /\ gemini_entity.name \notin DictKeys(merged_entities)
    /\ ~KeepsModelOnly(gemini_entity)
    /\ hm' = hm + 1
    /\ UNCHANGED notHybridVars
    /\ UNCHANGED <<use_gemini, h_model, replies, hpc, hc, he, spacy_entities,
                   gemini_entities_map, merged_entities, h_returned>>

\* line 197
HybridReturn ==
    /\ hpc = "merge"
    /\ hm > Len(gemini_entities_map)
    /\ h_returned' = Some([k \in 1..Len(merged_entities) |-> merged_entities[k][2]])
    /\ hpc' = "done"
    /\ UNCHANGED notHybridVars
    /\ UNCHANGED <<use_gemini, h_model, replies, hc, he, spacy_entities,
                   gemini_entities_map, merged_entities, hm>>

HybridStep ==
    \/ HybridTagger
    \/ HybridDisabled
    \/ HybridNoModel
    \/ HybridEnter
    \/ HybridChunkFails
    \/ HybridSkipShort
    \/ HybridCandidateAgain
    \/ HybridCandidateNew
    \/ HybridCandidateInvalid
    \/ HybridNextChunk
    \/ HybridMergeStart
    \/ HybridBoost
    \/ HybridAdopt
    \/ HybridDiscard
    \/ HybridReturn

-----------------------------------------------------------------------------
(* Retry wrapper (shared/utils/gemini_client.py)                           *)

MAX_RETRIES == 3
BASE_DELAY == 1

\* What a call to func can do: return, or raise one of the two exceptions
\* the wrapper retries on, or raise another exception.
TransientErrors == {"ResourceExhausted", "ServiceUnavailable"}
CallOutcomes == {"returns", "ValueError"} \cup TransientErrors

ConstantWait(n) == BASE_DELAY

\* lines 53, 57: base_delay * (2 ** attempt)
WaitTime(n) == BASE_DELAY * 2^n

RetryIdle ==
    /\ outcomes = <<>>
    /\ attempt = 0
    /\ tpc = "idle"
    /\ t_calls = 0
    /\ t_sleeps = <<>>

InitRetry ==
    /\ outcomes \in [1..MAX_RETRIES -> CallOutcomes]
    /\ attempt = 0
    /\ tpc = "loop"
    /\ t_calls = 0
    /\ t_sleeps = <<>>

InRetryLoop == tpc = "loop" /\ attempt < MAX_RETRIES

\* lines 49-51
RetryReturns ==
    /\ InRetryLoop
    /\ outcomes[attempt + 1] = "returns"
    /\ t_calls' = t_calls + 1
    /\ tpc' = "returned"
    /\ UNCHANGED notRetryVars
    /\ UNCHANGED <<outcomes, attempt, t_sleeps>>

\* lines 49-59: the wait is part of the handler
RetryTransient ==
    /\ InRetryLoop
    /\ outcomes[attempt + 1] \in TransientErrors
    /\ t_calls' = t_calls + 1
    /\ t_sleeps' = Append(t_sleeps, WaitTime(attempt))
    /\ attempt' = attempt + 1
    /\ UNCHANGED notRetryVars
    /\ UNCHANGED <<outcomes, tpc>>

\* lines 49-50, 60-63
RetryReraises ==
    /\ InRetryLoop
    /\ outcomes[attempt + 1] \notin TransientErrors \cup {"returns"}
    /\ t_calls' = t_calls + 1
    /\ tpc' = "reraised"
    /\ UNCHANGED notRetryVars
    /\ UNCHANGED <<outcomes, attempt, t_sleeps>>

\* line 65
RetryGivesUp ==
    /\ tpc = "loop"
    /\ attempt >= MAX_RETRIES
    /\ tpc' = "gave up"
    /\ UNCHANGED notRetryVars
    /\ UNCHANGED <<outcomes, attempt, t_calls, t_sleeps>>

-----------------------------------------------------------------------------
(* Embedding service (features/organize/services/embedding_service.py)     *)

BATCH_SIZE == 10

MaxTexts == 11

\* The vector the service gives for the text at 0-based position k
Vector(k) == <<k, 1>>

\* What one embed_content call can give: a list with one vector per entry of
\* the batch, one flat vector, a response without the 'embedding' key, or an
\* exception, one of them the rate-limit signal.
EmbedOutcomes == {"vectors", "vector", "no key", "ResourceExhausted", "ValueError"}

\* range(0, len(texts), BATCH_SIZE)
BatchStarts(n) == {i \in 0..(n - 1) : i % BATCH_SIZE = 0}

\* [None] * n
Nones(n) == [k \in 1..n |-> None]

EmbedIdle ==
    /\ texts = <<>>
    /\ e_model = FALSE
    /\ scripts = <<>>
    /\ epc = "idle"
    /\ ei = 0
    /\ results = <<>>
    /\ e_calls = <<>>

\* scripts[b] tells what the first and the second embed_content call for the
\* b-th batch would give.
InitEmbed ==
    /\ \E n \in 0..MaxTexts : texts = [k \in 1..n |-> <<"t">>]
    /\ e_model \in BOOLEAN
    /\ scripts \in [1..Cardinality(BatchStarts(Len(texts))) -> [1..2 -> EmbedOutcomes]]
    /\ epc = "enter"
    /\ ei = 0
    /\ results = <<>>
    /\ e_calls = <<>>

\* lines 34-35
EmbedEmpty ==
    /\ epc = "enter"
    /\ texts = <<>>
    /\ results' = <<>>
    /\ epc' = "done"
    /\ UNCHANGED notEmbedVars
    /\ UNCHANGED <<texts, e_model, scripts, ei, e_calls>>

\* lines 37-39
EmbedNoModel ==
    /\ epc = "enter"
    /\ texts # <<>>
    /\ ~e_model
    /\ results' = Nones(Len(texts))
    /\ epc' = "done"
    /\ UNCHANGED notEmbedVars
    /\ UNCHANGED <<texts, e_model, scripts, ei, e_calls>>

\* line 41
EmbedEnter ==
    /\ epc = "enter"
    /\ texts # <<>>
    /\ e_model
    /\ results' = Nones(Len(texts))
    /\ ei' = 0
    /\ epc' = "batches"
    /\ UNCHANGED notEmbedVars
    /\ UNCHANGED <<texts, e_model, scripts, e_calls>>

InBatch == epc = "batches" /\ ei < Len(texts)
batch_end == Min(ei + BATCH_SIZE, Len(texts))
\* The one embed_content call made for the batch is the first of its script
Response == scripts[(ei \div BATCH_SIZE) + 1][1]

\* lines 51-55, 58-64, 69-73
EmbedBatchVectors ==
    /\ InBatch
    /\ Response = "vectors"
    /\ results' = [k \in 1..Len(results) |->
                      IF k - 1 >= ei /\ k - 1 < batch_end
                      THEN Some(Vector(k - 1)) ELSE results[k]]
    /\ e_calls' = Append(e_calls, ei)
    /\ ei' = ei + BATCH_SIZE
    /\ UNCHANGED notEmbedVars
    /\ UNCHANGED <<texts, e_model, scripts, epc>>

\* lines 51-55, 58-68
EmbedBatchVector ==
    /\ InBatch
    /\ Response = "vector"
    /\ results' = [results EXCEPT ![ei + 1] = Some(Vector(ei))]
    /\ e_calls' = Append(e_calls, ei)
    /\ ei' = ei + BATCH_SIZE
    /\ UNCHANGED notEmbedVars
    /\ UNCHANGED <<texts, e_model, scripts, epc>>

\* lines 51-55, 58, 75-76
EmbedBatchNoKey ==
    /\ InBatch
    /\ Response = "no key"
    /\ e_calls' = Append(e_calls, ei)
    /\ ei' = ei + BATCH_SIZE
    /\ UNCHANGED notEmbedVars
    /\ UNCHANGED <<texts, e_model, scripts, epc, results>>

\* lines 51-55, 78-81: any exception leaves the batch's entries None
EmbedBatchRaises ==
    /\ InBatch
    /\ Response \in {"ResourceExhausted", "ValueError"}
    /\ e_calls' = Append(e_calls, ei)
    /\ ei' = ei + BATCH_SIZE
    /\ UNCHANGED notEmbedVars
    /\ UNCHANGED <<texts, e_model, scripts, epc, results>>

\* line 87
EmbedReturn ==
    /\ epc = "batches"
    /\ ei >= Len(texts)
    /\ epc' = "done"
    /\ UNCHANGED notEmbedVars
    /\ UNCHANGED <<texts, e_model, scripts, ei, results, e_calls>>

-----------------------------------------------------------------------------
(* is_abbreviation called on its own (shared/utils/similarity.py)          *)

Name_Mailbox == <<"M","a","i","l","b","o","x">>
Name_Dot == <<".">>

\* The strings is_abbreviation is called with: initials with and without
\* dots, the phrase they abbreviate, a word inside a longer word, a word of
\* more than five letters and a string that normalises to the empty string.
AbbrevStrings ==
    {Name_AI, Name_AI_dotted, Name_ArtIntel, Name_ML, Name_Mail, Name_Mailbox, Name_Dot}

\* The max_length arguments: the default, one that fits the initials only and
\* one that fits the empty string only.
AbbrevMaxLengths == {0, 2, DEFAULT_MAX_LENGTH}

AbbrevIdle ==
    /\ ab_short = <<>>
    /\ ab_long = <<>>
    /\ ab_max = 0
    /\ ab_result = None

InitAbbrev ==
    /\ ab_short \in AbbrevStrings
    /\ ab_long \in AbbrevStrings
    /\ ab_max \in AbbrevMaxLengths
    /\ ab_result = None

\* lines 90-136: the call and its return value
AbbrevCall ==
    /\ ab_result = None
    /\ ab_result' = Some(is_abbreviation(ab_short, ab_long, ab_max))
    /\ UNCHANGED <<ab_short, ab_long, ab_max>>
    /\ UNCHANGED notAbbrevVars

-----------------------------------------------------------------------------
(* _classify_with_patterns called on its own                               *)
(* (features/organize/services/relationship_classifier.py)                 *)

Text_Colleague == <<"A","n","n"," ","c","o","l","l","e","a","g","u","e"," ","B","o","b">>
Text_JoinedIn == <<"A","n","n"," ","j","o","i","n","e","d"," ","i","n">>
Text_Bought == <<"C","o","r","p"," ","b","o","u","g","h","t"," ","A","c","m","e">>

\* The examples arguments: no example, one without any keyword, one for an
\* untyped rule, one for each kind of typed rule, one whose first keyword
\* belongs to a typed rule and whose second belongs to a later rule, and two
\* examples that name two rules between them.
PatternExamples ==
    {<<>>, <<Text_And>>, <<Text_Founded>>, <<Text_Ceo>>, <<Text_Colleague>>,
     <<Text_JoinedIn>>, <<Text_Bought>>, <<Text_Ceo, Text_Founded>>}

\* entity_types.get(name): a type, or None for a name that is not listed
PatternTypes == {None, Some("PERSON"), Some("ORGANIZATION"), Some("LOCATION")}

PatternIdle ==
    /\ pt_examples = <<>>
    /\ pt_source_type = None
    /\ pt_target_type = None
    /\ pt_result = None

InitPatterns ==
    /\ pt_examples \in PatternExamples
    /\ pt_source_type \in PatternTypes
    /\ pt_target_type \in PatternTypes
    /\ pt_result = None

\* lines 139-208: the call and its return value (None when nothing is
\* returned yet, Some(r) once the function returned r)
PatternCall ==
    /\ pt_result = None
    /\ pt_result' = Some(_classify_with_patterns(Name_A, Name_B, pt_examples,
                                                 pt_source_type, pt_target_type))
    /\ UNCHANGED <<pt_examples, pt_source_type, pt_target_type>>
    /\ UNCHANGED notPatternVars

-----------------------------------------------------------------------------
(* Specifications                                                          *)

\* deduplicate_entities called on its own
NextDedup == DedupLengthMismatch \/ DedupStep
InitSpecDedup == InitDedup /\ CoocIdle /\ WeightIdle /\ ClassifyIdle /\ ExtractIdle /\ PipeIdle
    /\ HybridIdle /\ RetryIdle /\ EmbedIdle
    /\ AbbrevIdle /\ PatternIdle
SpecDedup == InitSpecDedup /\ [][NextDedup]_vars

\* build_cooccurrence_relationships called on its own
NextCooc == CoocStep
InitSpecCooc == InitCooc /\ DedupIdle /\ WeightIdle /\ ClassifyIdle /\ ExtractIdle /\ PipeIdle
    /\ HybridIdle /\ RetryIdle /\ EmbedIdle
    /\ AbbrevIdle /\ PatternIdle
SpecCooc == InitSpecCooc /\ [][NextCooc]_vars

\* calculate_cooccurrence_weight called on its own
NextWeight == WeightZero \/ WeightShared
InitSpecWeight == InitWeight /\ DedupIdle /\ CoocIdle /\ ClassifyIdle /\ ExtractIdle /\ PipeIdle
    /\ HybridIdle /\ RetryIdle /\ EmbedIdle
    /\ AbbrevIdle /\ PatternIdle
SpecWeight == InitSpecWeight /\ [][NextWeight]_vars

\* classify_relationships_with_llm called on its own with a collaborator
NextClassify ==
    \/ ClassifySkip
    \/ ClassifyPattern
    \/ ClassifyModel
    \/ ClassifyModelRaises
    \/ ClassifyReturn
InitSpecClassify == InitClassify /\ DedupIdle /\ CoocIdle /\ WeightIdle /\ ExtractIdle /\ PipeIdle
    /\ HybridIdle /\ RetryIdle /\ EmbedIdle
    /\ AbbrevIdle /\ PatternIdle
SpecClassify == InitSpecClassify /\ [][NextClassify]_vars

\* extract_entities_spacy called on its own
NextExtract == ExtractStep
InitSpecExtract ==
    InitExtract /\ DedupIdle /\ CoocIdle /\ WeightIdle /\ ClassifyIdle /\ PipeIdle
    /\ HybridIdle /\ RetryIdle /\ EmbedIdle
    /\ AbbrevIdle /\ PatternIdle
SpecExtract == InitSpecExtract /\ [][NextExtract]_vars

\* extract_graph: one request through the stages of the handler
NextPipeline ==
    \/ PipeFail
    \/ PipeExtract
    \/ DedupStep
    \/ PipeBuild
    \/ CoocStep
    \/ PipeClassify
    \/ ClassifySkip
    \/ ClassifyPattern
    \/ ClassifyNoSuchMethod
    \/ ClassifyReturn
    \/ PipeRespond
InitSpecPipeline ==
    InitPipeline /\ DedupIdle /\ CoocIdle /\ WeightIdle /\ ClassifyIdle /\ ExtractIdle
    /\ HybridIdle /\ RetryIdle /\ EmbedIdle
    /\ AbbrevIdle /\ PatternIdle
SpecPipeline == InitSpecPipeline /\ [][NextPipeline]_vars

\* extract_entities_with_gemini called on its own
NextHybrid == ExtractStep \/ HybridStep
InitSpecHybrid ==
    InitHybrid /\ DedupIdle /\ CoocIdle /\ WeightIdle /\ ClassifyIdle /\ PipeIdle
    /\ RetryIdle /\ EmbedIdle
    /\ AbbrevIdle /\ PatternIdle
SpecHybrid == InitSpecHybrid /\ [][NextHybrid]_vars

\* _call_with_retry called on its own
NextRetry == RetryReturns \/ RetryTransient \/ RetryReraises \/ RetryGivesUp
InitSpecRetry ==
    InitRetry /\ DedupIdle /\ CoocIdle /\ WeightIdle /\ ClassifyIdle /\ ExtractIdle
    /\ PipeIdle /\ HybridIdle /\ EmbedIdle
    /\ AbbrevIdle /\ PatternIdle
SpecRetry == InitSpecRetry /\ [][NextRetry]_vars

\* generate_embeddings called on its own
NextEmbed ==
    \/ EmbedEmpty
    \/ EmbedNoModel
    \/ EmbedEnter
    \/ EmbedBatchVectors
    \/ EmbedBatchVector
    \/ EmbedBatchNoKey
    \/ EmbedBatchRaises
    \/ EmbedReturn
InitSpecEmbed ==
    InitEmbed /\ DedupIdle /\ CoocIdle /\ WeightIdle /\ ClassifyIdle /\ ExtractIdle
    /\ PipeIdle /\ HybridIdle /\ RetryIdle
    /\ AbbrevIdle /\ PatternIdle
SpecEmbed == InitSpecEmbed /\ [][NextEmbed]_vars

\* is_abbreviation called on its own
NextAbbrev == AbbrevCall
InitSpecAbbrev ==
    InitAbbrev /\ DedupIdle /\ CoocIdle /\ WeightIdle /\ ClassifyIdle /\ ExtractIdle
    /\ PipeIdle /\ HybridIdle /\ RetryIdle /\ EmbedIdle /\ PatternIdle
SpecAbbrev == InitSpecAbbrev /\ [][NextAbbrev]_vars

\* _classify_with_patterns called on its own
NextPatterns == PatternCall
InitSpecPatterns ==
    InitPatterns /\ DedupIdle /\ CoocIdle /\ WeightIdle /\ ClassifyIdle /\ ExtractIdle
    /\ PipeIdle /\ HybridIdle /\ RetryIdle /\ EmbedIdle /\ AbbrevIdle
SpecPatterns == InitSpecPatterns /\ [][NextPatterns]_vars

-----------------------------------------------------------------------------
(* Properties of the relationship builder                                  *)

Smaller(S1, S2) == IF Cardinality(S1) <= Cardinality(S2) THEN S1 ELSE S2
Larger(S1, S2) == IF Cardinality(S1) <= Cardinality(S2) THEN S2 ELSE S1

\* |S1 \cap S2| / min(|S1|, |S2|) for intersecting sets, else 0
ReferenceWeight(S1, S2) ==
    IF S1 \cap S2 = {} THEN Fraction(0, 1)
    ELSE Fraction(Cardinality(S1 \cap S2), Cardinality(Smaller(S1, S2)))

WeightFormula(w, S1, S2) ==
    /\ w.den > 0
    /\ FracEq(w, ReferenceWeight(S1, S2))
    /\ 0 <= w.num /\ w.num <= w.den
    /\ FracEq(w, calculate_cooccurrence_weight(S2, S1))

\* C5 as stated: the weight is |S1 \cap S2| / min(|S1|, |S2|) for nonempty
\* intersecting sets and 0 otherwise, lies in [0,1], is the same for the
\* swapped arguments, and is 1 whenever the smaller set is contained in the
\* larger.
C5_AsStated ==
    w_result # None =>
        /\ WeightFormula(w_result[1], w_chunks1, w_chunks2)
        /\ Smaller(w_chunks1, w_chunks2) \subseteq Larger(w_chunks1, w_chunks2)
              => w_result[1].num = w_result[1].den

\* C5 amended: as stated, but the weight is 1 whenever the smaller set is
\* nonempty and contained in the larger (an empty set is contained in every
\* set, and its weight is 0).
C5_Weight ==
    w_result # None =>
        /\ WeightFormula(w_result[1], w_chunks1, w_chunks2)
        /\ (/\ Smaller(w_chunks1, w_chunks2) # {}
            /\ Smaller(w_chunks1, w_chunks2) \subseteq Larger(w_chunks1, w_chunks2))
              => w_result[1].num = w_result[1].den

\* The weight of {0,1,2} and {1,2,3,4} has been computed and is 2/3.
C5_Witness ==
    /\ w_chunks1 = {0, 1, 2}
    /\ w_chunks2 = {1, 2, 3, 4}
    /\ w_result # None
    /\ 3 * w_result[1].num = 2 * w_result[1].den

FootprintOf(e) == {e.sources[k].chunkIndex : k \in 1..Len(e.sources)}

DistinctNames(ents) == \A a, b \in 1..Len(ents) : a # b => ents[a].name # ents[b].name

Connects(r, n1, n2) ==
    \/ r.sourceEntity = n1 /\ r.targetEntity = n2
    \/ r.sourceEntity = n2 /\ r.targetEntity = n1

RelationshipsBetween(n1, n2) ==
    {k \in 1..Len(relationships) : Connects(relationships[k], n1, n2)}

\* C6: for entities with distinct names and a threshold in (0,1], the
\* returned list holds exactly one relationship for each unordered pair whose
\* weight reaches the threshold, with that weight, none for a pair below it,
\* and nothing else.
C6_OnePerStrongPair ==
    (rpc = "done" /\ DistinctNames(rel_entities) /\ min_weight.num > 0) =>
        /\ \A a, b \in 1..Len(rel_entities) :
              a < b =>
                 LET w == ReferenceWeight(FootprintOf(rel_entities[a]),
                                          FootprintOf(rel_entities[b]))
                     rs == RelationshipsBetween(rel_entities[a].name, rel_entities[b].name)
                 IN  /\ FracGeq(w, min_weight) =>
                           /\ Cardinality(rs) = 1
                           /\ \A k \in rs : FracEq(relationships[k].weight, w)
                     /\ ~FracGeq(w, min_weight) => rs = {}
        /\ \A k \in 1..Len(relationships) :
              \E a, b \in 1..Len(rel_entities) :
                 /\ a < b
                 /\ Connects(relationships[k], rel_entities[a].name, rel_entities[b].name)

\* The documented run: threshold 0.5 over footprints {0,1,2,3}, {0} and
\* {0,4,5,6} returns the first pair and the last pair and not the pair of
\* weight 0.25.
C6_Witness ==
    /\ rpc = "done"
    /\ min_weight = Fraction(1, 2)
    /\ Len(rel_entities) = 3
    /\ FootprintOf(rel_entities[1]) = {0, 1, 2, 3}
    /\ FootprintOf(rel_entities[2]) = {0}
    /\ FootprintOf(rel_entities[3]) = {0, 4, 5, 6}
    /\ Len(relationships) = 2
    /\ Connects(relationships[1], rel_entities[1].name, rel_entities[2].name)
    /\ Connects(relationships[2], rel_entities[2].name, rel_entities[3].name)
    /\ RelationshipsBetween(rel_entities[1].name, rel_entities[3].name) = {}

OccurrencesOfName(n) ==
    UNION {FootprintOf(rel_entities[k]) : k \in {x \in 1..Len(rel_entities) : rel_entities[x].name = n}}

\* C7: whatever the threshold in [0,1], no returned relationship joins two
\* entities whose occurrence sets share no chunk index.
C7_NoUnsharedPair ==
    \A k \in 1..Len(relationships) :
        OccurrencesOfName(relationships[k].sourceEntity)
            \cap OccurrencesOfName(relationships[k].targetEntity) # {}

-----------------------------------------------------------------------------
(* Properties of the classifier                                            *)

Keyword_founded == <<"f","o","u","n","d","e","d">>

\* The relationship at position k of the input is at or above the bar and a
\* pattern rule matches its examples and the types of its entities.
PatternAt(k) ==
    LET rel == cl_relationships[k]
    IN  _classify_with_patterns(rel.sourceEntity, rel.targetEntity, rel.examples,
                                TypeLookup(cl_entities, rel.sourceEntity),
                                TypeLookup(cl_entities, rel.targetEntity))

AtOrAboveBar(k) == 2 * cl_relationships[k].weight.num >= cl_relationships[k].weight.den

CallsAt(k) == {c \in 1..Len(calls) : calls[c].at = k}

MentionsFounded(k) ==
    \E e \in 1..Len(cl_relationships[k].examples) :
        IsSubstring(Keyword_founded, Lower(cl_relationships[k].examples[e]))

\* C8: every relationship at or above weight 0.5 for which a pattern rule
\* matches is classified without a call to the model collaborator, takes the
\* label of the matched rule, and gets the confidence max(prior, 0.85); an
\* example mentioning "founded" gives the label "founded".
C8_PatternPath ==
    \A k \in 1..Len(enhanced_relationships) :
        AtOrAboveBar(k) =>
           LET matched == PatternAt(k)
           IN  /\ matched # None =>
                     /\ CallsAt(k) = {}
                     /\ enhanced_relationships[k].relationType = matched[1]
                     /\ enhanced_relationships[k].confidence =
                           IF cl_relationships[k].confidence >= 85
                           THEN cl_relationships[k].confidence ELSE 85
               /\ MentionsFounded(k) =>
                     /\ CallsAt(k) = {}
                     /\ enhanced_relationships[k].relationType = "founded"

\* A run that classified, by pattern, one relationship whose prior confidence
\* was below 0.85 and one whose prior confidence was above it, the first
\* between a PERSON and an ORGANIZATION with an example mentioning "founded".
C8_Witness ==
    /\ cpc = "done"
    /\ cl_entities # None
    /\ \E k, m \in 1..Len(enhanced_relationships) :
          /\ AtOrAboveBar(k) /\ MentionsFounded(k)
          /\ cl_relationships[k].confidence = 70
          /\ enhanced_relationships[k].relationType = "founded"
          /\ enhanced_relationships[k].confidence = 85
          /\ AtOrAboveBar(m) /\ PatternAt(m) # None
          /\ cl_relationships[m].confidence = 90
          /\ enhanced_relationships[m].confidence = 90
          /\ enhanced_relationships[m].relationType # "related_to"

RaisedAt(k) == \E c \in CallsAt(k) : calls[c].outcome = "raised"

\* C9: a relationship for which the model collaborator raised is returned
\* with the relation type and confidence it came with; the function has no
\* position other than in its loop or returned, and the loop appends one
\* relationship per position; when it has returned, the output has as many
\* relationships as the input, each for the pair at its position, and every
\* relationship that needed the collaborator, after a failure too, got its
\* call.
C9_SoftFailure ==
    /\ cpc \in {"idle", "loop", "done"}
    /\ Len(enhanced_relationships) = cidx - 1
    /\ \A k \in 1..Len(cl_relationships) :
          RaisedAt(k) =>
             /\ k <= Len(enhanced_relationships)
             /\ enhanced_relationships[k].relationType = cl_relationships[k].relationType
             /\ enhanced_relationships[k].confidence = cl_relationships[k].confidence
    /\ cpc = "done" =>
          /\ Len(enhanced_relationships) = Len(cl_relationships)
          /\ \A k \in 1..Len(cl_relationships) :
                /\ enhanced_relationships[k].sourceEntity = cl_relationships[k].sourceEntity
                /\ enhanced_relationships[k].targetEntity = cl_relationships[k].targetEntity
                /\ (AtOrAboveBar(k) /\ PatternAt(k) = None) => CallsAt(k) # {}

\* A finished run in which the collaborator raised for the first of three
\* relationships, answered for the second and a pattern classified the third.
C9_Witness ==
    /\ cpc = "done"
    /\ Len(cl_relationships) = 3
    /\ RaisedAt(1)
    /\ enhanced_relationships[1] = cl_relationships[1]
    /\ \E c \in CallsAt(2) : calls[c].outcome = "answered"
    /\ enhanced_relationships[2].relationType = "works_at"
    /\ enhanced_relationships[3].relationType = "founded"

-----------------------------------------------------------------------------
(* Properties of the evidence sources                                      *)

Snippets(entity) == [k \in 1..Len(entity.sources) |-> entity.sources[k].snippet]

\* C4: no entity that the tagger extraction or deduplicate_entities returns
\* has two evidence sources with the same snippet text.
C4_SnippetsDistinct ==
    /\ xpc = "done" =>
          \A k \in 1..Len(ExtractedEntities) : NoRepeats(Snippets(ExtractedEntities[k]))
    /\ dpc = "done" =>
          \A k \in 1..Len(deduplicated) : NoRepeats(Snippets(deduplicated[k]))

-----------------------------------------------------------------------------
(* Properties of the pipeline                                              *)

\* No keyword of any pattern rule occurs in the examples of the relationship
\* at position k of the classifier's input.
NoKeywordAt(k) ==
    LET text == Lower(JoinWithSpace(cl_relationships[k].examples))
    IN  \A p \in 1..Len(patterns) :
           \A w \in 1..Len(patterns[p].keywords) :
              ~IsSubstring(patterns[p].keywords[w], text)

\* C10: when extract_graph has answered, every relationship among the first
\* twenty by weight that has weight at least 0.5 and examples matching no
\* pattern rule was put to the model collaborator's classify_relationship
\* with the names of the pair and its examples, and is returned with the
\* type the collaborator reported.
C10_ModelFallback ==
    ppc = "done" =>
       \A k \in 1..Len(cl_relationships) :
          (AtOrAboveBar(k) /\ NoKeywordAt(k)) =>
             \E c \in CallsAt(k) :
                /\ calls[c].entity1 = cl_relationships[k].sourceEntity
                /\ calls[c].entity2 = cl_relationships[k].targetEntity
                /\ calls[c].snippets = cl_relationships[k].examples
                /\ calls[c].answer # None
                /\ response[1].relationships[k].relationType = calls[c].answer[1].type

Keyword_ceo == <<"c","e","o">>

\* The types, among the entities extract_graph returns, of the entities
\* with the given name.
ReturnedTypes(name) ==
    {deduplicated[e].type : e \in {x \in 1..Len(deduplicated) : deduplicated[x].name = name}}

\* The examples of the relationship at position k of the classifier's input
\* contain "ceo" and no keyword of the rule before the "ceo" rule.
CeoExamplesAt(k) ==
    LET text == Lower(JoinWithSpace(cl_relationships[k].examples))
    IN  /\ IsSubstring(Keyword_ceo, text)
        /\ \A w \in 1..Len(patterns[1].keywords) :
              ~IsSubstring(patterns[1].keywords[w], text)

BetweenPersonAndOrganization(k) ==
    LET s == ReturnedTypes(cl_relationships[k].sourceEntity)
        t == ReturnedTypes(cl_relationships[k].targetEntity)
    IN  \/ s = {"PERSON"} /\ t = {"ORGANIZATION"}
        \/ s = {"ORGANIZATION"} /\ t = {"PERSON"}

\* C11: when extract_graph has answered, every relationship among the first
\* twenty by weight that has weight at least 0.5, connects a PERSON and an
\* ORGANIZATION of the returned entities, and has examples containing "ceo"
\* and no keyword of an earlier rule, is returned with relation type
\* "ceo_of" and confidence 0.85.
C11_TypedRuleInPipeline ==
    ppc = "done" =>
       \A k \in 1..Len(cl_relationships) :
          (AtOrAboveBar(k) /\ BetweenPersonAndOrganization(k) /\ CeoExamplesAt(k)) =>
             /\ response[1].relationships[k].relationType = "ceo_of"
             /\ response[1].relationships[k].confidence = 85

InUnitInterval(w) == 0 <= w.num /\ w.num <= w.den

WithinBounds(rel) ==
    /\ InUnitInterval(rel.weight)
    /\ 0 <= rel.confidence /\ rel.confidence <= 100

\* C12: every relationship that build_cooccurrence_relationships has emitted
\* and every relationship that classify_relationships_with_llm has appended
\* to its result has weight in [0, 1] and confidence in [0, 1], whatever the
\* model collaborator reported.
C12_WeightAndConfidenceBounded ==
    /\ \A k \in 1..Len(relationships) : WithinBounds(relationships[k])
    /\ \A k \in 1..Len(enhanced_relationships) : WithinBounds(enhanced_relationships[k])

\* The positions of the returned relationships that connect the names at
\* positions a and b of the occurrence map.
ReturnedBetween(a, b) ==
    {k \in 1..Len(response[1].relationships) :
        Connects(response[1].relationships[k], occurrences[a][1], occurrences[b][1])}

\* C13: when extract_graph has answered, the returned relationships are in
\* descending order of weight; the classifier was given the first
\* min(20, n) of them and nothing else, so that none it was given is lighter
\* than one it was not given; those past the first twenty are returned as
\* they were built, with type "related_to" and without a classification
\* call; the returned list is the classifier's result followed by the rest;
\* and each pair of names whose weight reaches the pipeline's threshold is
\* returned once, and no other pair is returned.
C13_TopTwentyThenRest ==
    (ppc = "done" /\ response[1].status = 200) =>
       LET out == response[1].relationships
           n == Len(out)
           top == IF n <= 20 THEN n ELSE 20
       IN  /\ \A k \in 1..(n - 1) : FracGeq(out[k].weight, out[k + 1].weight)
           /\ Len(cl_relationships) = top
           /\ Len(enhanced_relationships) = top
           /\ Len(remaining_relationships) = n - top
           /\ \A k \in 1..top :
                 /\ out[k] = enhanced_relationships[k]
                 /\ Connects(out[k], cl_relationships[k].sourceEntity,
                             cl_relationships[k].targetEntity)
                 /\ \A r \in (top + 1)..n : FracGeq(cl_relationships[k].weight, out[r].weight)
           /\ \A r \in (top + 1)..n :
                 /\ out[r] = remaining_relationships[r - top]
                 /\ out[r].relationType = "related_to"
                 /\ out[r].confidence = 70
                 /\ CallsAt(r) = {}
           /\ \A a, b \in 1..Len(occurrences) :
                 a < b =>
                    LET w == calculate_cooccurrence_weight(occurrences[a][2], occurrences[b][2])
                    IN  Cardinality(ReturnedBetween(a, b))
                           = IF FracGeq(w, Fraction(3, 10)) THEN 1 ELSE 0
           /\ \A k \in 1..n :
                 \E a, b \in 1..Len(occurrences) : a < b /\ k \in ReturnedBetween(a, b)

\* An answer with twenty-one relationships: twenty went to the classifier,
\* the lightest was held back, and a relationship of weight one that was
\* built after a lighter one is returned ahead of it.
C13_Witness ==
    /\ ppc = "done"
    /\ Len(response[1].relationships) = 21
    /\ Len(cl_relationships) = 20
    /\ remaining_relationships = <<response[1].relationships[21]>>
    /\ response[1].relationships[21].weight = Fraction(1, 2)
    /\ response[1].relationships[1].weight = Fraction(1, 1)
    /\ \E k \in 1..11 :
          /\ Connects(response[1].relationships[k], Name_F, Name_G)
          /\ response[1].relationships[k].weight = Fraction(1, 1)
    /\ \E k \in 12..20 : Connects(response[1].relationships[k], Name_B, Name_C)

\* C14: classify_relationships_with_llm appends its input relationships in
\* their order, each equal to the input one in everything but relationType
\* and confidence (source and target as they came, category, weight and
\* examples untouched); no relationship is put to the collaborator more than
\* once, none that a pattern classified is put to it at all, and no call is
\* made for a position not yet reached; the returned list has the length of
\* the input.
C14_FrameOfClassification ==
    /\ Len(enhanced_relationships) <= Len(cl_relationships)
    /\ \A k \in 1..Len(enhanced_relationships) :
          /\ [enhanced_relationships[k]
                 EXCEPT !.relationType = cl_relationships[k].relationType,
                        !.confidence = cl_relationships[k].confidence]
                = cl_relationships[k]
          /\ Cardinality(CallsAt(k)) <= 1
    /\ \A c \in 1..Len(calls) :
          /\ calls[c].at \in 1..Len(cl_relationships)
          /\ calls[c].at <= cidx
          /\ \A d \in 1..Len(calls) : c < d => calls[c].at < calls[d].at
    /\ cpc = "done" => Len(enhanced_relationships) = Len(cl_relationships)

\* A returned batch of three in which the collaborator's answer changed the
\* type and the confidence of the second relationship, a pattern changed the
\* type of the third, and the first, below the bar, came back as it was.
C14_Witness ==
    /\ cpc = "done"
    /\ Len(cl_relationships) = 3
    /\ enhanced_relationships[1] = cl_relationships[1]
    /\ ~AtOrAboveBar(1)
    /\ cl_relationships[2].relationType = "related_to"
    /\ cl_relationships[2].confidence = 90
    /\ enhanced_relationships[2].relationType = "works_at"
    /\ enhanced_relationships[2].confidence = 95
    /\ enhanced_relationships[2].sourceEntity = Name_A
    /\ enhanced_relationships[2].targetEntity = Name_B
    /\ Cardinality(CallsAt(2)) = 1
    /\ enhanced_relationships[3].relationType = "founded"
    /\ CallsAt(3) = {}

-----------------------------------------------------------------------------
(* Properties of the tagger and model merge                                *)

NamesIn(ents) == {ents[k].name : k \in 1..Len(ents)}

\* The model candidate list B: the values of the map, in insertion order
ModelCandidates == [k \in 1..Len(gemini_entities_map) |-> gemini_entities_map[k][2]]

\* The function has returned from line 197, after the merge
MergeReturned == hpc = "done" /\ use_gemini /\ h_model

\* The names only B has whose candidate is at or above 0.55
StrongModelOnlyNames ==
    {ModelCandidates[k].name : k \in
        {j \in 1..Len(ModelCandidates) :
            /\ ModelCandidates[j].name \notin NamesIn(spacy_entities)
            /\ ModelCandidates[j].confidence >= 55}}

\* C15: when the merge returns, the returned list has exactly one entity for
\* each name of the tagger list A and for each name only the model list B has
\* with a confidence of at least 0.55, and no other; every entity of A is
\* there with A's type; no name only B has with a confidence below 0.55 is
\* there.
C15_MergeIsUnion ==
    MergeReturned =>
        LET out == h_returned[1]
        IN  /\ NamesIn(out) = NamesIn(spacy_entities) \cup StrongModelOnlyNames
            /\ \A i, j \in 1..Len(out) : out[i].name = out[j].name => i = j
            /\ \A a \in 1..Len(spacy_entities) :
                  \E o \in 1..Len(out) :
                     /\ out[o].name = spacy_entities[a].name
                     /\ out[o].type = spacy_entities[a].type
            /\ \A b \in 1..Len(ModelCandidates) :
                  (/\ ModelCandidates[b].name \notin NamesIn(spacy_entities)
                   /\ ModelCandidates[b].confidence < 55)
                  => ModelCandidates[b].name \notin NamesIn(out)

\* A merge of a name both lists have, with another type in B, a name only B
\* has that is kept and a name only B has that is left out.
C15_Witness ==
    /\ MergeReturned
    /\ \E b \in 1..Len(ModelCandidates), a \in 1..Len(spacy_entities) :
          /\ ModelCandidates[b].name = spacy_entities[a].name
          /\ ModelCandidates[b].type # spacy_entities[a].type
    /\ StrongModelOnlyNames # {}
    /\ \E b \in 1..Len(ModelCandidates) :
          /\ ModelCandidates[b].name \notin NamesIn(spacy_entities)
          /\ ModelCandidates[b].confidence < 55

\* The entity of the returned list with the given name
ReturnedNamed(name) ==
    LET out == h_returned[1]
    IN  out[CHOOSE o \in 1..Len(out) : out[o].name = name]

\* C16: when the merge returns, for each name both the tagger list and the
\* model list have, the returned confidence is at least the confidence the
\* tagger gave and at most 0.98.
C16_BoostNeverLowers ==
    MergeReturned =>
        \A a \in 1..Len(spacy_entities) :
            spacy_entities[a].name \in NamesIn(ModelCandidates) =>
                /\ ReturnedNamed(spacy_entities[a].name).confidence
                      >= spacy_entities[a].confidence
                /\ ReturnedNamed(spacy_entities[a].name).confidence <= 98

\* The candidates of the reply for chunk c that are read whatever the map
\* holds: those before the first one the ExtractedEntity constructor rejects.
Rejected(candidate) ==
    /\ Len(Strip(candidate.name)) >= 2
    /\ \/ candidate.type # None /\ candidate.type[1] \notin EntityType
       \/ candidate.confidence # None /\ candidate.confidence[1] < 0
ReadCandidates(c) ==
    {e \in 1..Len(replies[c].candidates) :
        \A d \in 1..e : ~Rejected(replies[c].candidates[d])}

\* The chunks whose reply has been dealt with
ChunksDone ==
    IF hpc \in {"merge", "done"} THEN 1..Len(replies)
    ELSE IF hpc = "chunks" THEN 1..(hc - 1)
    ELSE {}

\* C17: when use_gemini is false or the client has no model, the function
\* returns the list the tagger returned, entity for entity, and every run
\* ends with a returned list; and whatever happens to the other chunks (a
\* call that raises, a reply that is not JSON), each candidate read from a
\* chunk's reply, with a name of two characters or more, is in the model
\* candidates with a source of that chunk.
C17_DegradedAndSkipped ==
    /\ hpc = "done" => h_returned # None
    /\ (hpc = "done" /\ ~(use_gemini /\ h_model)) =>
          h_returned = Some(ExtractedEntities)
    /\ \A c \in ChunksDone : \A e \in ReadCandidates(c) :
          LET name == Strip(replies[c].candidates[e].name)
          IN  Len(name) >= 2 =>
                 \E b \in 1..Len(ModelCandidates) :
                    /\ ModelCandidates[b].name = name
                    /\ \E s \in 1..Len(ModelCandidates[b].sources) :
                          ModelCandidates[b].sources[s].chunkIndex = c - 1

\* The tagger found entities and the function returned them without a model
C17_Witness ==
    /\ hpc = "done"
    /\ ~(use_gemini /\ h_model)
    /\ ExtractedEntities # <<>>
    /\ h_returned = Some(ExtractedEntities)

\* The second chunk's call failed and the first chunk's candidates are returned
C17_WitnessSkip ==
    /\ MergeReturned
    /\ Len(replies) = 2
    /\ replies[1].kind = "json"
    /\ replies[2].kind \in {"raises", "not json"}
    /\ StrongModelOnlyNames # {}
    /\ StrongModelOnlyNames \subseteq NamesIn(h_returned[1])

-----------------------------------------------------------------------------
(* Properties of the retry wrapper                                         *)

\* The first k calls all raised a rate-limit or a service-unavailable error
TransientUpTo(k) ==
    \A j \in 1..k : outcomes[j] \in {"ResourceExhausted", "ServiceUnavailable"}

RetryOver == tpc \in {"returned", "reraised", "gave up"}

\* C18: func is called at most 3 times; a return ends the run at the first
\* call that returns, all calls before it having failed transiently; after a
\* transient failure of call k, for k = 1 and k = 2, the wrapper has slept
\* 2^(k-1) seconds (1, then 2) and the run does not end before call k + 1;
\* another exception ends the run at the call that raised it; three
\* transient failures end the run with an exception, and nothing else does
\* after three calls; and the run never stops inside the loop.
C18_RetryContract ==
    /\ t_calls <= 3
    /\ tpc = "returned" =>
          outcomes[t_calls] = "returns" /\ TransientUpTo(t_calls - 1)
    /\ tpc = "reraised" =>
          /\ outcomes[t_calls] \notin {"returns", "ResourceExhausted", "ServiceUnavailable"}
          /\ TransientUpTo(t_calls - 1)
    /\ \A k \in {1, 2} :
          (TransientUpTo(k) /\ t_calls >= k /\ (attempt >= k \/ RetryOver)) =>
             /\ Len(t_sleeps) >= k
             /\ t_sleeps[k] = (IF k = 1 THEN 1 ELSE 2)
             /\ RetryOver => t_calls >= k + 1
    /\ tpc = "gave up" <=> (TransientUpTo(3) /\ RetryOver)
    /\ tpc = "gave up" => t_calls = 3
    /\ tpc = "loop" => ENABLED NextRetry

\* Two transient failures, waits of 1 and 2 seconds, and a third call that returns
C18_Witness ==
    /\ tpc = "returned"
    /\ t_calls = 3
    /\ t_sleeps = <<1, 2>>

-----------------------------------------------------------------------------
(* Properties of the embedding service                                     *)

\* The number of embed_content calls made for the b-th batch
CallsForBatch(b) ==
    Cardinality({c \in 1..Len(e_calls) : e_calls[c] = (b - 1) * 10})

\* The positions, in texts, of the entries of the b-th batch
EntriesOfBatch(b) ==
    {k \in 1..Len(texts) : (k - 1) \div 10 = b - 1}

\* C19: when generate_embeddings returns with a model present, a batch whose
\* first request hit the rate limit has been requested again, and if its
\* second request gives vectors, every entry of the batch has a vector.
C19_RetryInsideEmbedding ==
    (epc = "done" /\ e_model) =>
        \A b \in 1..Len(scripts) :
            scripts[b][1] = "ResourceExhausted" =>
                /\ CallsForBatch(b) >= 2
                /\ scripts[b][2] = "vectors" =>
                      \A k \in EntriesOfBatch(b) : results[k] # None

-----------------------------------------------------------------------------
(* Properties of the length check of the deduplication engine              *)

LengthsDiffer == Len(entities) # Len(embeddings)

\* C20: when the entity list and the embedding list differ in length, the
\* only step deduplicate_entities takes is to raise, with nothing grouped,
\* merged or returned and with both lists as they were passed; when both
\* lists are empty, the only step it takes is to return an empty list.
C20_LengthMismatch ==
    /\ [](LengthsDiffer =>
            /\ dpc \in {"start", "raised"}
            /\ type_groups = <<>> /\ merge_map = <<>>
            /\ deduplicated = <<>> /\ groups = <<>>)
    /\ [](dpc = "raised" => LengthsDiffer)
    /\ []((entities = <<>> /\ embeddings = <<>>) =>
            /\ dpc \in {"start", "done"}
            /\ deduplicated = <<>>)
    /\ [][/\ LengthsDiffer =>
                /\ dpc = "start" /\ dpc' = "raised"
                /\ entities' = entities /\ embeddings' = embeddings
          /\ (entities = <<>> /\ embeddings = <<>>) =>
                /\ dpc = "start" /\ dpc' = "done"
                /\ deduplicated' = <<>>]_vars

\* A call with one entity and two embeddings, or two entities and one
\* embedding, has raised
C20_Witness ==
    /\ dpc = "raised"
    /\ entities # <<>>
    /\ LengthsDiffer

\* A call with two empty lists has returned
C20_WitnessEmpty ==
    /\ dpc = "done"
    /\ entities = <<>> /\ embeddings = <<>>
    /\ deduplicated = <<>>

-----------------------------------------------------------------------------
(* Properties of the similarity input contract                             *)

\* The scan called should_merge on the entities at i < j: i was never merged
\* away and j had not been merged away when i was the outer index.
Compared(i, j) ==
    /\ i < j
    /\ entities[i].type = entities[j].type
    /\ i \notin DictKeys(merge_map)
    /\ j \in DictKeys(merge_map) => DictGet(merge_map, j) >= i

\* Two embeddings that cosine_similarity does not accept
BreaksVectorContract(emb1, emb2) ==
    /\ emb1 # None /\ emb2 # None
    /\ \/ Len(emb1[1]) # Len(emb2[1])
       \/ Len(emb1[1]) = 0

\* C21: deduplicate_entities does not return when it has compared two
\* entities of one type, both with embeddings, whose string similarity is
\* below 0.85 and whose vectors differ in length or are empty.
C21_VectorContractFailsFast ==
    dpc = "done" =>
        \A i, j \in 1..Len(entities) :
            ~(/\ Compared(i, j)
              /\ 100 * string_similarity(entities[i].name, entities[j].name).num
                    < 85 * string_similarity(entities[i].name, entities[j].name).den
              /\ BreaksVectorContract(embeddings[i], embeddings[j]))

-----------------------------------------------------------------------------
(* Properties of the examples of a relationship                            *)

\* The example is the chunk itself if the chunk has at most 200 characters,
\* and else a prefix of the chunk followed by "..."
ExcerptOf(example, chunk) ==
    IF Len(chunk) <= 200 THEN example = chunk
    ELSE /\ Len(example) >= 3
         /\ SubSeq(example, Len(example) - 2, Len(example)) = <<".", ".", ".">>
         /\ SubSeq(example, 1, Len(example) - 3) = SubSeq(chunk, 1, Len(example) - 3)

\* C22: every relationship the builder has emitted has at most 3 examples,
\* and each example has at most 200 characters and is the excerpt of a text
\* chunk whose index is in the occurrence sets of both entities.
C22_ExamplesAreExcerpts ==
    \A k \in 1..Len(relationships) :
        /\ Len(relationships[k].examples) <= 3
        /\ \A x \in 1..Len(relationships[k].examples) :
              /\ Len(relationships[k].examples[x]) <= 200
              /\ \E idx \in OccurrencesOfName(relationships[k].sourceEntity)
                              \cap OccurrencesOfName(relationships[k].targetEntity) :
                    /\ idx + 1 \in 1..Len(text_chunks)
                    /\ ExcerptOf(relationships[k].examples[x], text_chunks[idx + 1])

\* A relationship with three examples: a short chunk, a chunk of exactly 200
\* characters and a chunk of 205 characters cut to 200
C22_Witness ==
    /\ rpc = "done"
    /\ \E k \in 1..Len(relationships) :
          /\ Len(relationships[k].examples) = 3
          /\ Text_1 \in Range(relationships[k].examples)
          /\ Text_Exact \in Range(relationships[k].examples)
          /\ \E x \in 1..3 :
                /\ relationships[k].examples[x] # Text_Long
                /\ Len(relationships[k].examples[x]) = 200
                /\ ExcerptOf(relationships[k].examples[x], Text_Long)

-----------------------------------------------------------------------------
(* Properties of the classification bar                                    *)

\* C23: a relationship whose weight is below 0.5 is returned as it came,
\* also when its examples match a pattern rule, and the model collaborator
\* is not called for it; a relationship whose weight is 0.5 is classified:
\* it takes the label of the matching rule, or the collaborator is called
\* for it.
C23_BelowBarUntouched ==
    \A k \in 1..Len(enhanced_relationships) :
        LET w == cl_relationships[k].weight
        IN  /\ 2 * w.num < w.den =>
                  /\ enhanced_relationships[k] = cl_relationships[k]
                  /\ CallsAt(k) = {}
            /\ 2 * w.num = w.den =>
                  IF PatternAt(k) # None
                  THEN enhanced_relationships[k].relationType = PatternAt(k)[1]
                  ELSE CallsAt(k) # {}

\* A relationship of weight 0.2 whose example mentions "founded" came back
\* as "related_to", and the collaborator answered for one of weight 0.5
C23_Witness ==
    /\ cpc = "done"
    /\ \E k, m \in 1..Len(enhanced_relationships) :
          /\ 5 * cl_relationships[k].weight.num = cl_relationships[k].weight.den
          /\ MentionsFounded(k)
          /\ enhanced_relationships[k].relationType = "related_to"
          /\ enhanced_relationships[k].confidence = 50
          /\ 2 * cl_relationships[m].weight.num = cl_relationships[m].weight.den
          /\ enhanced_relationships[m].relationType = "works_at"
          /\ CallsAt(m) # {}

-----------------------------------------------------------------------------
(* Properties of the abbreviation test                                     *)

\* the positions of s where a whitespace-separated token starts
TokenStarts(s) ==
    {p \in 1..Len(s) : s[p] \notin SpaceChars /\ (p = 1 \/ s[p - 1] \in SpaceChars)}

\* the first letters of the tokens of s, in order
FirstLetters(s) ==
    LET P == TokenStarts(s)
    IN  [k \in 1..Cardinality(P) |->
            s[CHOOSE p \in P : Cardinality({q \in P : q < p}) = k - 1]]

\* x is s without some prefix and some suffix
Occurs(x, s) ==
    \E a \in 0..Len(s) : \E b \in a..Len(s) : SubSeq(s, a + 1, b) = x

\* the decision the abbreviation test is specified to make
AbbreviationReference(short, long, maxLen) ==
    LET ns == normalize_text(short)
        nl == normalize_text(long)
    IN  IF Len(ns) > maxLen THEN FALSE
        ELSE IF Occurs(ns, nl) THEN TRUE
        ELSE ns = FirstLetters(nl)

\* C24: is_abbreviation(short, long, maxLen) returns the reference decision:
\* false when the normalized short is longer than maxLen, otherwise true when
\* it is a substring of the normalized long, otherwise true when it equals
\* the first letters of the tokens of the normalized long, otherwise false;
\* and should_merge accepts two entities of one type when the test succeeds
\* in either ordering of their names under the default length.
C24_AbbreviationDecision ==
    ab_result # None =>
        /\ ab_result[1] = AbbreviationReference(ab_short, ab_long, ab_max)
        /\ \A t \in {"PERSON", "CONCEPT"} :
              LET e_short == Entity(ab_short, t, 50, <<>>, <<>>)
                  e_long == Entity(ab_long, t, 50, <<>>, <<>>)
              IN  (\/ AbbreviationReference(ab_short, ab_long, DEFAULT_MAX_LENGTH)
                   \/ AbbreviationReference(ab_long, ab_short, DEFAULT_MAX_LENGTH))
                  => /\ should_merge(e_short, e_long, None, None)
                     /\ should_merge(e_long, e_short, None, None)

\* the test succeeded by initials in one ordering and fails in the other,
\* and should_merge accepts the pair in the failing ordering
C24_Witness ==
    /\ ab_result = Some(TRUE)
    /\ ab_short = Name_AI
    /\ ab_long = Name_ArtIntel
    /\ ab_max = 2
    /\ ~Occurs(normalize_text(ab_short), normalize_text(ab_long))
    /\ ~AbbreviationReference(ab_long, ab_short, DEFAULT_MAX_LENGTH)
    /\ should_merge(Entity(ab_long, "CONCEPT", 50, <<>>, <<>>),
                    Entity(ab_short, "CONCEPT", 50, <<>>, <<>>), None, None)

\* a word of more than maxLen letters is refused although it occurs in the
\* long string
C24_WitnessTooLong ==
    /\ ab_result = Some(FALSE)
    /\ ab_short = Name_Mailbox
    /\ ab_long = Name_Mailbox
    /\ ab_max = DEFAULT_MAX_LENGTH

-----------------------------------------------------------------------------
(* Properties of the merge map                                             *)

\* the merge-map entry at position k, as later index and earlier index
EntryLater(k) == merge_map[k][1]
EntryEarlier(k) == merge_map[k][2]

MergeEntryIsSound(k) ==
    LET j == EntryLater(k)
        i == EntryEarlier(k)
    IN  /\ i < j
        /\ entities[i].type = entities[j].type
        /\ i \notin {EntryLater(m) : m \in 1..Len(merge_map)}
        /\ should_merge(entities[i], entities[j], embeddings[i], embeddings[j])
        /\ \A m \in 1..Len(merge_map) : EntryLater(m) = j => m = k

\* C25: at every step of the pair scan each merge-map entry j -> i has
\* i < j, i and j of one type, i not itself merged away and should_merge
\* holding between entity i and entity j, and no step changes or removes an
\* entry; each canonical built is the first-seen member of its group and the
\* canonicals are listed in input order.
C25_MergeMapInvariant ==
    /\ [](\A k \in 1..Len(merge_map) : MergeEntryIsSound(k))
    /\ [][/\ Len(merge_map') >= Len(merge_map)
          /\ \A k \in 1..Len(merge_map) : merge_map'[k] = merge_map[k]]_vars
    /\ [](\A k \in 1..Len(groups) :
            /\ \A m \in 2..Len(groups[k]) : groups[k][1] < groups[k][m]
            /\ deduplicated[k].name = entities[groups[k][1]].name
            /\ deduplicated[k].type = entities[groups[k][1]].type
            /\ k > 1 => groups[k - 1][1] < groups[k][1])

\* a call that merged the second entity into the first and kept the third
C25_Witness ==
    /\ dpc = "done"
    /\ Len(entities) = 3
    /\ merge_map = <<<<2, 1>>>>
    /\ groups = <<<<1, 2>>, <<3>>>>
    /\ entities[1].type = entities[3].type

\* a call that merged two later entities into the first
C25_WitnessTwo ==
    /\ dpc = "done"
    /\ Len(merge_map) = 2
    /\ groups = <<<<1, 2, 3>>>>

-----------------------------------------------------------------------------
(* Properties of the pattern rules                                         *)

\* the text the rules are matched against
PatternText == Lower(JoinWithSpace(pt_examples))

\* some keyword of rule r occurs in the text
KeywordOccurs(r) ==
    \E k \in 1..Len(patterns[r].keywords) : Occurs(patterns[r].keywords[k], PatternText)

IsTyped(r) == patterns[r].type_requirements # None

\* a requirement slot is met by a type
SlotMet(slot, type) == slot = None \/ slot = type

\* the two types meet the two slots one-to-one, in one order or the other
OneToOne(req, source_type, target_type) ==
    /\ source_type # None /\ target_type # None
    /\ \/ SlotMet(req[1], source_type) /\ SlotMet(req[2], target_type)
       \/ SlotMet(req[1], target_type) /\ SlotMet(req[2], source_type)

\* rule r qualifies when one of its keywords occurs and, if it is typed, the
\* types meet its slots one-to-one
QualifiesOneToOne(r) ==
    /\ KeywordOccurs(r)
    /\ IsTyped(r) =>
          OneToOne(patterns[r].type_requirements[1], pt_source_type, pt_target_type)

\* C26: a typed rule whose keyword occurs in the examples matches if and
\* only if the two entity types meet its two requirement slots one-to-one,
\* in either order, a None slot being met by any type; so the label
\* _classify_with_patterns returns belongs to a rule that qualifies in this
\* sense, and a rule for two entities of one type matches only when both
\* entities have that type.
C26_TypedRuleOneToOne ==
    pt_result # None =>
        /\ \A r \in 1..Len(patterns) :
              (IsTyped(r) /\ KeywordOccurs(r)) =>
                  (RuleMatches(patterns[r], PatternText, pt_source_type, pt_target_type)
                     <=> OneToOne(patterns[r].type_requirements[1],
                                  pt_source_type, pt_target_type))
        /\ pt_result[1] # None =>
              \E r \in 1..Len(patterns) :
                  /\ patterns[r].rel_type = pt_result[1][1]
                  /\ QualifiesOneToOne(r)

\* rule r qualifies: one of its keywords occurs in the text and its type
\* requirement, if it has one, is satisfied
Qualifies(r) ==
    /\ KeywordOccurs(r)
    /\ TypesAccepted(patterns[r].type_requirements, pt_source_type, pt_target_type)

C27_WitnessTwo ==
    /\ pt_result = Some(Some("founded"))
    /\ Cardinality({r \in 1..Len(patterns) : Qualifies(r)}) >= 2

\* a keyword occurs but no rule qualifies
C27_WitnessNone ==
    /\ pt_result = Some(None)
    /\ \E r \in 1..Len(patterns) : KeywordOccurs(r)

-----------------------------------------------------------------------------
(* Properties of the delay between classifications                         *)

\* the collaborator answered for the relationship at position k
AnsweredAt(k) == \E c \in CallsAt(k) : calls[c].outcome = "answered"

\* the relationship at position k was given a label: by a rule, or by the
\* collaborator's answer
ClassifiedAt(k) ==
    /\ AtOrAboveBar(k)
    /\ PatternAt(k) # None \/ AnsweredAt(k)

\* C28: with a positive delay, every delay comes right after a call to the
\* model collaborator and, once the batch is done, is followed by a later
\* call to it; no delay follows a relationship labelled by a rule, a skipped
\* or a failed one, and none follows the last classification of the batch.
C28_DelayOnlyBetweenModelCalls ==
    delay_ms > 0 =>
        \A n \in 1..Len(sleeps) :
            LET k == sleeps[n]
            IN  /\ AnsweredAt(k)
                /\ PatternAt(k) = None
                /\ cpc = "done" =>
                      /\ \E m \in (k + 1)..Len(cl_relationships) : CallsAt(m) # {}
                      /\ \E m \in (k + 1)..Len(cl_relationships) : ClassifiedAt(m)

-----------------------------------------------------------------------------
(* Properties of the deduplicated list as an input                         *)

\* the embedding the caller holds for the k-th canonical returned
CanonicalEmbedding(k) == embeddings[groups[k][1]]

\* the k-th canonical returned, its confidence counted in units of its own
\* denominator
CanonicalAsInput(k) ==
    [deduplicated[k] EXCEPT !.confidence = deduplicated[k].confidence.num]

\* C29: no two canonicals returned by deduplicate_entities, of one type and
\* taken in output order, satisfy should_merge on their names and the
\* embeddings they came with; a canonical built again from a returned
\* canonical with nothing merged into it has the same name, type, aliases,
\* sources and confidence.
C29_OutputIsFixpoint ==
    dpc = "done" =>
        /\ \A a \in 1..Len(deduplicated) : \A b \in (a + 1)..Len(deduplicated) :
              ~should_merge(deduplicated[a], deduplicated[b],
                            CanonicalEmbedding(a), CanonicalEmbedding(b))
        /\ \A k \in 1..Len(deduplicated) :
              LET again == BuildCanonical(<<CanonicalAsInput(k)>>, <<>>, 1)
              IN  /\ again.name = deduplicated[k].name
                  /\ again.type = deduplicated[k].type
                  /\ again.aliases = deduplicated[k].aliases
                  /\ again.sources = deduplicated[k].sources
                  /\ again.confidence.den = 1
                  /\ again.confidence.num = deduplicated[k].confidence.num

\* a call that merged one pair and returned two canonicals of one type
C29_Witness ==
    /\ dpc = "done"
    /\ merge_map # <<>>
    /\ Len(deduplicated) = 2
    /\ deduplicated[1].type = deduplicated[2].type
    /\ deduplicated[1].aliases # <<>>

-----------------------------------------------------------------------------
(* Properties of the response as a graph                                   *)

Answered == response # None /\ response[1].status = 200

ReturnedNames == {response[1].entities[k].name : k \in 1..Len(response[1].entities)}

\* the two names a returned relationship joins, without their order
PairOf(k) ==
    {response[1].relationships[k].sourceEntity, response[1].relationships[k].targetEntity}

\* C30: in every response of extract_graph the returned entities have
\* pairwise distinct names, every relationship joins the names of two
\* different returned entities, and no two relationships join the same
\* unordered pair of names.
C30_ResponseIsSimpleGraph ==
    Answered =>
        /\ \A a, b \in 1..Len(response[1].entities) :
              a # b => response[1].entities[a].name # response[1].entities[b].name
        /\ \A k \in 1..Len(response[1].relationships) :
              /\ Cardinality(PairOf(k)) = 2
              /\ PairOf(k) \subseteq ReturnedNames
        /\ \A k, m \in 1..Len(response[1].relationships) :
              k # m => PairOf(k) # PairOf(m)

\* a response after a merge, with several entities and several relationships
C30_Witness ==
    /\ Answered
    /\ Len(response[1].entities) >= 2
    /\ Len(response[1].entities) < Len(entities)
    /\ Len(response[1].relationships) >= 1

\* a response with more relationships than are classified
C30_WitnessMany ==
    /\ Answered
    /\ Len(response[1].relationships) > TOP_K

====
